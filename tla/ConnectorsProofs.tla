------------------------- MODULE ConnectorsProofs -------------------------
(***************************************************************************)
(* Proofs about Connectors, for any number of messages, folders, faults    *)
(* and imports: the connector of a live mailbox implements MailboxFeed,    *)
(* but for its fairness, no sweep removes a working copy in use, and a     *)
(* Mbox file of any length is cut at the same places in whatever chunks.   *)
(* GmailInv, GraphInv and ImapInv say of the run's own state, the marker,  *)
(* the tokens, the highest UIDs, what they say of the stored state: what   *)
(* it has passed is in the archive, or still in the run's hands, or the    *)
(* run has failed and its state will be discarded.  SplitInv says where in *)
(* the file the splitter's buffer lies, and what has come out before it.   *)
(***************************************************************************)
EXTENDS Connectors, FiniteSetTheorems, SequenceTheorems, TLAPS

-----------------------------------------------------------------------------
(* Gmail: the history id.                                                    *)

GmailFeed == INSTANCE MailboxFeed WITH there <- Gmail!There, passed <- Gmail!Passed, skipped <- {}

GmailRun ==
    [ marker : Nat, full : BOOLEAN, paged : BOOLEAN, unlisted : SUBSET Messages,
      todo : SUBSET Messages, streak : Nat, failed : BOOLEAN ]

Full == run.full = TRUE
Paged == run.paged = TRUE
Failed == run.failed = TRUE

GmailTypes ==
    /\ mail \in [ arrived : Nat, there : SUBSET Messages, horizon : Nat ]
    /\ \A m \in mail.there : m <= mail.arrived
    /\ run \in GmailRun
    /\ archived \subseteq Messages
    /\ stored \in Nat /\ stored <= mail.arrived /\ run.marker <= mail.arrived
    /\ pc \in { "idle", "profile", "list", "messages", "finish" }

\* What the stored marker has passed is in the archive, or not for it.
GmailKept == \A m \in mail.there : m <= stored => m \in archived \cup Excused

\* What the run's marker has passed is, or is still to be looked at by the run.
GmailCovered ==
    Paged /\ ~ Failed =>
        \A m \in mail.there :
            m <= run.marker => m \in archived \cup Excused \cup run.todo \cup run.unlisted

GmailPhases ==
    /\ pc \in { "messages", "finish" } => Paged
    /\ pc \in { "profile", "list", "finish" } => run.todo = {}
    /\ pc = "finish" => run.unlisted = {}
    /\ pc = "list" /\ ~ Paged /\ ~ Full => run.marker = stored

GmailInv == GmailTypes /\ GmailKept /\ (pc \in { "list", "messages", "finish" } => GmailCovered) /\ GmailPhases

GmailFeedKept == GmailFeed!Next \/ UNCHANGED GmailFeed!vars

LEMMA GmailNewRun ==
  ASSUME NEW from \in Nat
  PROVE  /\ Gmail!NewRun(from) \in GmailRun /\ Gmail!NewRun(from).marker = from
         /\ Gmail!NewRun(from).todo = {} /\ Gmail!NewRun(from).unlisted = {} /\ Gmail!NewRun(from).paged = FALSE
         /\ (Gmail!NewRun(from).full = TRUE <=> from = 0)
<1> DEFINE full == from = 0
<1>1. full \in BOOLEAN
  BY Zenon
<1> HIDE DEF full
<1>2. LET r == [ marker |-> from, full |-> full, paged |-> FALSE, unlisted |-> {}, todo |-> {},
                 streak |-> 0, failed |-> FALSE ]
      IN  /\ r \in GmailRun /\ r.marker = from /\ r.todo = {} /\ r.unlisted = {}
          /\ r.paged = FALSE /\ r.full = full
  <2>1. {} \subseteq Messages /\ 0 \in Nat
    OBVIOUS
  <2> QED
    BY <1>1, <2>1, Zenon DEF GmailRun
<1> QED
  BY <1>2, Zenon DEF Gmail!NewRun, full

LEMMA GmailFields ==
  ASSUME GmailTypes
  PROVE  /\ run.marker \in Nat /\ run.streak \in Nat /\ run.failed \in BOOLEAN /\ run.full \in BOOLEAN
         /\ run.paged \in BOOLEAN
         /\ run.todo \subseteq Messages /\ run.unlisted \subseteq Messages
         /\ mail.arrived \in Nat /\ mail.there \subseteq Messages
<1>2. mail.arrived \in Nat /\ mail.there \subseteq Messages
  BY DEF GmailTypes
<1>3. run \in GmailRun
  BY DEF GmailTypes
<1> QED
  BY <1>2, <1>3, Zenon DEF GmailRun

\* A message has been looked at.
GmailLooked(m) ==
    /\ pc = "messages" /\ m \in run.todo
    /\ run' \in GmailRun
    /\ run'.todo = run.todo \ {m} /\ run'.unlisted = run.unlisted /\ run'.marker = run.marker
    /\ (Paged' <=> Paged)

LEMMA GmailHandle ==
  ASSUME GmailTypes, NEW m, NEW streak \in Nat, NEW failed \in BOOLEAN, Gmail!Handle(m, streak, failed)
  PROVE  GmailLooked(m) /\ run'.failed = failed
<1> DEFINE S == run.todo \ {m}
<1>2. pc = "messages" /\ m \in run.todo
      /\ run' = [ run EXCEPT !.todo = S, !.streak = streak, !.failed = failed ]
  BY Zenon DEF Gmail!Handle
<1>3. run \in GmailRun /\ S \in SUBSET Messages
  BY GmailFields DEF GmailTypes
<1>4. /\ run' \in GmailRun
      /\ run'.todo = S /\ run'.unlisted = run.unlisted /\ run'.marker = run.marker
      /\ run'.paged = run.paged /\ run'.failed = failed
  BY <1>2, <1>3, Zenon DEF GmailRun
<1> QED
  BY <1>2, <1>4, Zenon DEF GmailLooked, Paged

LEMMA MessageNumbers ==
  ASSUME Gmail!GmailAssumption PROVE \A m \in Messages : m \in Nat
<1>1. Gmail!Cardinality(Messages) = Cardinality(Messages)
  BY DEF Cardinality, Gmail!Cardinality
<1>2. Gmail!IsFiniteSet(Messages) <=> IsFiniteSet(Messages)
  BY DEF IsFiniteSet, Gmail!IsFiniteSet
<1>3. Cardinality(Messages) \in Nat
  BY <1>2, FS_CardinalityType DEF Gmail!GmailAssumption
<1> QED
  BY <1>1, <1>3 DEF Gmail!GmailAssumption

LEMMA GmailInit == Gmail!GmailAssumption /\ Gmail!Init => GmailInv /\ GmailFeed!Init
<1> SUFFICES ASSUME Gmail!GmailAssumption, Gmail!Init PROVE GmailInv /\ GmailFeed!Init
  OBVIOUS
<1>1. mail = [ arrived |-> 0, there |-> {}, horizon |-> 0 ] /\ run = Gmail!NewRun(0)
      /\ archived = {} /\ stored = 0 /\ pc = "idle"
  BY DEF Gmail!Init, Gmail!NoRun
<1>2. run \in GmailRun /\ run.marker = 0
  BY <1>1, GmailNewRun
<1> QED
  BY <1>1, <1>2 DEF GmailInv, GmailTypes, GmailKept, GmailPhases, GmailFeed!Init, Gmail!There, Gmail!Passed

\* Where nothing of the mailbox, the archive or the stored marker changes.
LEMMA GmailStutter ==
  ASSUME UNCHANGED << mail, archived, stored >> PROVE GmailFeedKept
  BY DEF GmailFeedKept, GmailFeed!vars, Gmail!There, Gmail!Passed

LEMMA GmailIdle ==
  ASSUME GmailInv, UNCHANGED << mail, archived, stored >>, pc' = "idle", run' = Gmail!NoRun
  PROVE  GmailInv' /\ GmailFeedKept
<1>1. run' \in GmailRun /\ run'.marker = 0
  BY GmailNewRun DEF Gmail!NoRun
<1> QED
  BY <1>1, GmailStutter DEF GmailInv, GmailTypes, GmailKept, GmailPhases

LEMMA GmailStart ==
  ASSUME GmailInv, Gmail!Start PROVE GmailInv' /\ GmailFeedKept
<1>1. run' = Gmail!NewRun(stored) /\ pc' = (IF stored = 0 THEN "profile" ELSE "list")
      /\ UNCHANGED << mail, archived, stored >> /\ stored \in Nat
  BY DEF Gmail!Start, GmailInv, GmailTypes
<1>2. /\ run' \in GmailRun /\ run'.marker = stored /\ run'.todo = {} /\ run'.unlisted = {}
      /\ ~ Paged'
  <2>1. run'.paged = FALSE
    BY <1>1, GmailNewRun
  <2>2. ~ Paged'
    BY <2>1, Zenon DEF Paged
  <2> QED
    BY <1>1, <2>2, GmailNewRun
<1> QED
  BY <1>1, <1>2, GmailStutter DEF GmailInv, GmailTypes, GmailKept, GmailCovered, GmailPhases

LEMMA GmailProfile ==
  ASSUME GmailInv, Gmail!Profile PROVE GmailInv' /\ GmailFeedKept
<1> DEFINE at == mail.arrived
<1>1. run' = [ run EXCEPT !.marker = at, !.full = TRUE, !.paged = FALSE ] /\ pc' = "list"
      /\ UNCHANGED << mail, archived, stored >>
  BY Zenon DEF Gmail!Profile
<1>0. at \in Nat /\ run \in GmailRun /\ GmailTypes
  BY DEF GmailInv, GmailTypes
<1> HIDE DEF at
<1>3. run' \in GmailRun /\ run'.marker = at /\ run'.full = TRUE /\ run'.paged = FALSE
      /\ run'.todo = run.todo
  BY <1>0, <1>1, Zenon DEF GmailRun
<1>4. Full' /\ ~ Paged'
  BY <1>3, Zenon DEF Full, Paged
<1>5. pc = "profile"
  BY DEF Gmail!Profile
<1> QED
  BY <1>1, <1>3, <1>4, <1>5, GmailStutter DEF GmailInv, GmailTypes, GmailKept, GmailCovered, GmailPhases, at

LEMMA GmailPage ==
  ASSUME Gmail!GmailAssumption, GmailInv, Gmail!ListPage PROVE GmailInv' /\ GmailFeedKept
<1>0. GmailTypes /\ GmailKept /\ GmailCovered /\ GmailPhases /\ pc = "list"
  BY DEF GmailInv, Gmail!ListPage
<1> DEFINE rest == IF run.paged THEN run.unlisted ELSE Gmail!Listing
           next == Gmail!MarkerAfterPage
<1>1. PICK page \in SUBSET rest :
        run' = [ run EXCEPT !.todo = page, !.unlisted = rest \ page, !.paged = TRUE, !.marker = next ]
  BY Zenon DEF Gmail!ListPage
<1>2. pc' = "messages" /\ UNCHANGED << mail, archived, stored >>
  BY DEF Gmail!ListPage
<1>3. Gmail!Listing \subseteq Messages
  <2>1. mail.there \subseteq Messages
    BY <1>0, GmailFields
  <2>2. CASE Full
    BY <2>1, <2>2, Zenon DEF Gmail!Listing, Full
  <2>3. CASE ~ Full
    <3>1. ~ run.full
      BY <1>0, <2>3, GmailFields, Zenon DEF Full
    <3> QED
      BY <3>1, Zenon DEF Gmail!Listing
  <2> QED
    BY <2>2, <2>3
<1>4. /\ Paged => rest = run.unlisted /\ next = run.marker
      /\ ~ Paged => rest = Gmail!Listing
      /\ ~ Paged /\ Full => next = run.marker /\ Gmail!Listing = mail.there
      /\ ~ Paged /\ ~ Full => next = mail.arrived
            /\ Gmail!Listing = { m \in Messages : stored < m /\ m <= mail.arrived }
  BY <1>0, GmailFields, Zenon DEF Paged, Full, Gmail!Listing, Gmail!MarkerAfterPage
<1>5. rest \subseteq Messages /\ next \in Nat /\ next <= mail.arrived
  BY <1>0, <1>3, <1>4, GmailFields DEF GmailTypes
<1> HIDE DEF rest, next
<1>7. run \in GmailRun /\ page \in SUBSET Messages /\ rest \ page \in SUBSET Messages
  BY <1>0, <1>5 DEF GmailTypes
<1>8. /\ run' \in GmailRun /\ run'.todo = page /\ run'.unlisted = rest \ page
      /\ run'.paged = TRUE /\ run'.marker = next /\ run'.failed = run.failed
  BY <1>1, <1>5, <1>7, Zenon DEF GmailRun
<1>9. Paged' /\ (Failed' <=> Failed)
  BY <1>8, Zenon DEF Paged, Failed
<1>10. ~ Failed => \A m \in mail.there : m <= next => m \in archived \cup Excused \cup rest
  <2>1. CASE Paged
    BY <1>0, <1>4, <2>1 DEF GmailCovered, GmailPhases
  <2>2. CASE ~ Paged /\ Full
    BY <1>4, <2>2
  <2>3. CASE ~ Paged /\ ~ Full
    <3>1. \A m \in mail.there : m \in Messages /\ m <= mail.arrived /\ (m <= stored \/ stored < m)
      BY <1>0, MessageNumbers, GmailFields DEF GmailTypes
    <3> QED
      BY <1>0, <1>4, <2>3, <3>1 DEF GmailKept
  <2> QED
    BY <2>1, <2>2, <2>3
<1>11. GmailCovered'
  BY <1>2, <1>8, <1>9, <1>10 DEF GmailCovered
<1>12. GmailTypes'
  BY <1>0, <1>2, <1>5, <1>8 DEF GmailTypes
<1> QED
  BY <1>0, <1>2, <1>9, <1>11, <1>12, GmailStutter DEF GmailInv, GmailKept, GmailPhases

LEMMA GmailExpired ==
  ASSUME GmailInv, Gmail!MarkerExpired PROVE GmailInv' /\ GmailFeedKept
<1>1. run' = [ run EXCEPT !.marker = 0 ] /\ pc' = "profile" /\ pc = "list"
      /\ UNCHANGED << mail, archived, stored >>
  BY Zenon DEF Gmail!MarkerExpired
<1>3. run \in GmailRun
  BY DEF GmailInv, GmailTypes
<1>4. run' \in GmailRun /\ run'.marker = 0 /\ run'.todo = run.todo
  BY <1>1, <1>3, Zenon DEF GmailRun
<1> QED
  BY <1>1, <1>4, GmailStutter DEF GmailInv, GmailTypes, GmailKept, GmailPhases

LEMMA GmailPageDone ==
  ASSUME GmailInv, Gmail!PageDone PROVE GmailInv' /\ GmailFeedKept
<1>1. UNCHANGED << mail, archived, stored, run >> /\ run.todo = {} /\ pc = "messages"
      /\ pc' = (IF run.unlisted = {} THEN "finish" ELSE "list")
  BY DEF Gmail!PageDone
<1>2. (Paged' <=> Paged) /\ (Failed' <=> Failed)
  BY <1>1, Zenon DEF Paged, Failed
<1> QED
  BY <1>1, <1>2, GmailStutter DEF GmailInv, GmailTypes, GmailKept, GmailCovered, GmailPhases

LEMMA GmailFinish ==
  ASSUME Gmail!GmailAssumption, GmailInv, Gmail!Finish PROVE GmailInv' /\ GmailFeedKept
<1>0. GmailTypes /\ GmailKept /\ GmailCovered /\ GmailPhases /\ pc = "finish"
  BY DEF GmailInv, Gmail!Finish
<1>1. stored' = Gmail!KeptMarker /\ UNCHANGED << mail, archived >> /\ pc' = "idle" /\ run' = Gmail!NoRun
  BY DEF Gmail!Finish
<1>2. stored' = stored \/ (~ Failed /\ stored' = run.marker)
  <2>1. run.failed \in BOOLEAN
    BY <1>0, GmailFields
  <2> QED
    BY <1>1, <2>1, Zenon DEF Gmail!KeptMarker, Failed
<1>3. GmailKept'
  <2>1. CASE stored' = stored
    BY <1>0, <1>1, <2>1 DEF GmailKept
  <2>2. CASE ~ Failed /\ stored' = run.marker
    BY <1>0, <1>1, <2>2 DEF GmailKept, GmailCovered, GmailPhases
  <2> QED
    BY <1>2, <2>1, <2>2
<1>4. run' \in GmailRun /\ run'.marker = 0
  BY <1>1, GmailNewRun DEF Gmail!NoRun
<1>5. GmailTypes'
  BY <1>0, <1>1, <1>2, <1>4, GmailFields DEF GmailTypes
<1>6. Gmail!Passed' \subseteq Gmail!There \cap (archived \cup Excused) /\ Gmail!Passed' \in SUBSET Messages
  BY <1>1, <1>3, <1>5 DEF GmailKept, GmailTypes, Gmail!Passed, Gmail!There
<1>7. GmailFeed!Advance(Gmail!Passed')
  BY <1>1, <1>6 DEF GmailFeed!Advance, Gmail!There
<1> QED
  BY <1>1, <1>3, <1>5, <1>6, <1>7 DEF GmailInv, GmailPhases, GmailFeedKept, GmailFeed!Next

LEMMA GmailMessage ==
  ASSUME Gmail!GmailAssumption, GmailInv, NEW m \in Messages, Gmail!MessageStep(m)
  PROVE  GmailInv' /\ GmailFeedKept
<1>0. GmailTypes /\ GmailKept /\ GmailPhases
  BY DEF GmailInv
<1>1. run.streak \in Nat /\ run.streak + 1 \in Nat /\ 0 \in Nat /\ run.failed \in BOOLEAN
  BY <1>0, GmailFields
<1>2. CASE pc' = "idle" /\ run' = Gmail!NoRun /\ UNCHANGED << mail, archived, stored >>
  BY <1>2, GmailIdle
<1>3. CASE /\ GmailLooked(m) /\ mail' = mail /\ stored' = stored /\ pc' = pc
           /\ \/ archived' = archived
              \/ (Gmail!Archivable(m) /\ archived' = archived \cup {m})
           /\ Failed' \/ ((Failed' <=> Failed) /\ (m \in mail.there => m \in archived' \cup Excused))
  <2>1. GmailTypes'
    BY <1>0, <1>3 DEF GmailTypes, GmailLooked
  <2>2. GmailKept' /\ archived \subseteq archived'
    BY <1>0, <1>3 DEF GmailKept
  <2>3. GmailCovered'
    BY <1>3, <2>2 DEF GmailInv, GmailCovered, GmailLooked
  <2>4. GmailPhases'
    BY <1>0, <1>3 DEF GmailPhases, GmailLooked
  <2>5. GmailFeedKept
    <3>1. CASE UNCHANGED archived
      BY <1>3, <3>1, GmailStutter
    <3>2. CASE Gmail!Archivable(m) /\ archived' = archived \cup {m}
      <4>1. GmailFeed!Archive(m)
        BY <1>3, <3>2 DEF GmailFeed!Archive, Gmail!Archivable, Gmail!There, Gmail!Passed
      <4> QED
        BY <4>1 DEF GmailFeedKept, GmailFeed!Next
    <3> QED
      BY <1>3, <3>1, <3>2
  <2> QED
    BY <2>1, <2>2, <2>3, <2>4, <2>5 DEF GmailInv
<1>4. CASE Gmail!Duplicate(m) \/ Gmail!Skip(m)
  <2>1. PICK streak \in Nat : Gmail!Handle(m, streak, run.failed)
    BY <1>1, <1>4, Zenon DEF Gmail!Duplicate, Gmail!Skip
  <2>2. GmailLooked(m) /\ run'.failed = run.failed
    BY <1>0, <1>1, <2>1, GmailHandle
  <2>3. Failed' <=> Failed
    BY <2>2, Zenon DEF Failed
  <2>4. UNCHANGED << mail, archived, stored, pc >> /\ (m \in mail.there => m \in archived \cup Excused)
    BY <1>4 DEF Gmail!Duplicate, Gmail!Skip, Gmail!Archivable
  <2> QED
    BY <1>3, <2>2, <2>3, <2>4
<1>5. CASE Gmail!Archive(m)
  <2>1. Gmail!Handle(m, 0, run.failed)
    BY <1>5 DEF Gmail!Archive
  <2>2. GmailLooked(m) /\ run'.failed = run.failed
    BY <1>0, <1>1, <2>1, GmailHandle
  <2>3. Failed' <=> Failed
    BY <2>2, Zenon DEF Failed
  <2>4. UNCHANGED << mail, stored, pc >> /\ Gmail!Archivable(m) /\ archived' = archived \cup {m}
    BY <1>5 DEF Gmail!Archive
  <2> QED
    BY <1>3, <2>2, <2>3, <2>4
<1>6. CASE Gmail!ArchiveFails(m) \/ Gmail!FetchFails(m)
  <2>1. UNCHANGED << mail, archived, stored >>
    BY <1>6 DEF Gmail!ArchiveFails, Gmail!FetchFails
  <2>2. CASE ~ (pc' = "idle" /\ run' = Gmail!NoRun)
    <3>1. PICK streak \in Nat : Gmail!Handle(m, streak, TRUE)
      BY <1>1, <1>6, <2>2, Zenon DEF Gmail!ArchiveFails, Gmail!FetchFails
    <3>2. GmailLooked(m) /\ run'.failed = TRUE
      BY <1>0, <3>1, GmailHandle, Zenon
    <3>3. Failed'
      BY <3>2, Zenon DEF Failed
    <3>4. pc' = pc
      BY <1>6, <2>2 DEF Gmail!ArchiveFails, Gmail!FetchFails
    <3>5. mail' = mail /\ stored' = stored /\ archived' = archived
      BY <2>1, <3>4
    <3> QED
      BY <1>3, <3>2, <3>3, <3>4, <3>5
  <2> QED
    BY <1>2, <2>1, <2>2
<1> QED
  BY <1>4, <1>5, <1>6 DEF Gmail!MessageStep

LEMMA GmailOutside ==
  ASSUME Gmail!GmailAssumption, GmailInv, Gmail!Arrive \/ (\E m \in Messages : Gmail!Vanish(m)) \/ Gmail!Expire
  PROVE  GmailInv' /\ GmailFeedKept
<1>0. GmailTypes /\ GmailKept /\ GmailPhases
  BY DEF GmailInv
<1>1. UNCHANGED << archived, stored, pc, run >>
  BY DEF Gmail!Arrive, Gmail!Vanish, Gmail!Expire
<1>2. (Paged' <=> Paged) /\ (Full' <=> Full) /\ (Failed' <=> Failed)
  BY <1>1, Zenon DEF Paged, Full, Failed
<1>3. ASSUME mail.arrived <= mail'.arrived,
             mail' \in [ arrived : Nat, there : SUBSET Messages, horizon : Nat ],
             \A m \in mail'.there : m \in Nat /\ m <= mail'.arrived /\ (m \in mail.there \/ mail.arrived < m)
      PROVE  GmailInv'
  <2>0. mail.arrived \in Nat /\ mail'.arrived \in Nat /\ run.marker \in Nat
    BY <1>0, <1>3, GmailFields
  <2>1. GmailTypes'
    BY <1>0, <1>1, <1>3, <2>0 DEF GmailTypes
  <2>2. GmailKept'
    BY <1>0, <1>1, <1>3, <2>0 DEF GmailKept, GmailTypes
  <2>3. GmailCovered => GmailCovered'
    BY <1>0, <1>1, <1>2, <1>3, <2>0 DEF GmailCovered, GmailTypes
  <2> QED
    BY <1>0, <1>1, <1>2, <2>1, <2>2, <2>3 DEF GmailInv, GmailPhases
<1>m. /\ mail \in [ arrived : Nat, there : SUBSET Messages, horizon : Nat ]
      /\ \A m \in mail.there : m \in Nat /\ m <= mail.arrived
      /\ mail.arrived \in Nat
  BY <1>0, MessageNumbers, GmailFields DEF GmailTypes
<1>4. CASE Gmail!Arrive
  <2> DEFINE n == mail.arrived + 1
  <2>1. n \in Messages /\ mail' = [ mail EXCEPT !.arrived = n, !.there = @ \cup {n} ]
    BY <1>4 DEF Gmail!Arrive
  <2>2. mail' \in [ arrived : Nat, there : SUBSET Messages, horizon : Nat ]
        /\ mail'.arrived = n /\ mail'.there = mail.there \cup {n}
    <3>1. n \in Nat /\ mail.there \cup {n} \in SUBSET Messages
      BY <1>0, <1>m, <2>1, GmailFields
    <3> HIDE DEF n
    <3> QED
      BY <1>m, <2>1, <3>1, Zenon
  <2>3. n \notin mail.there
    BY <1>m
  <2>4. GmailInv'
    BY <1>3, <1>m, <2>2
  <2>5. ~ (n <= stored)
    BY <1>0, <1>m DEF GmailTypes
  <2>6. GmailFeed!Arrive(n)
    BY <1>1, <2>2, <2>3, <2>5 DEF GmailFeed!Arrive, Gmail!There, Gmail!Passed
  <2> QED
    BY <2>1, <2>4, <2>6 DEF GmailFeedKept, GmailFeed!Next
<1>5. ASSUME NEW m \in Messages, Gmail!Vanish(m) PROVE GmailInv' /\ GmailFeedKept
  <2>1. m \in mail.there /\ mail' = [ mail EXCEPT !.there = @ \ {m} ]
    BY <1>5 DEF Gmail!Vanish
  <2>2. mail' \in [ arrived : Nat, there : SUBSET Messages, horizon : Nat ]
        /\ mail'.arrived = mail.arrived /\ mail'.there = mail.there \ {m}
    BY <1>m, <2>1
  <2>4. GmailInv'
    BY <1>3, <1>m, <2>2
  <2>6. GmailFeed!Vanish(m)
    BY <1>1, <2>1, <2>2 DEF GmailFeed!Vanish, Gmail!There, Gmail!Passed
  <2> QED
    BY <2>4, <2>6 DEF GmailFeedKept, GmailFeed!Next
<1>6. CASE Gmail!Expire
  <2>1. mail' = [ mail EXCEPT !.horizon = mail.arrived ]
    BY <1>6 DEF Gmail!Expire
  <2>2. mail' \in [ arrived : Nat, there : SUBSET Messages, horizon : Nat ]
        /\ mail'.arrived = mail.arrived /\ mail'.there = mail.there
    BY <1>m, <2>1
  <2>4. GmailInv'
    BY <1>3, <1>m, <2>2
  <2> QED
    BY <1>1, <2>2, <2>4 DEF GmailFeedKept, GmailFeed!vars, Gmail!There, Gmail!Passed
<1> QED
  BY <1>4, <1>5, <1>6

LEMMA GmailNext == Gmail!GmailAssumption /\ GmailInv /\ Gmail!Next => GmailInv' /\ GmailFeedKept
<1> SUFFICES ASSUME Gmail!GmailAssumption, GmailInv, Gmail!Next PROVE GmailInv' /\ GmailFeedKept
  OBVIOUS
<1>1. CASE Gmail!ListFails \/ Gmail!Crash
  <2>1. Gmail!Abort
    BY <1>1, Zenon DEF Gmail!ListFails, Gmail!Crash
  <2> QED
    BY <2>1, GmailIdle DEF Gmail!Abort
<1> QED
  BY <1>1, GmailStart, GmailProfile, GmailPage, GmailExpired, GmailMessage, GmailPageDone, GmailFinish,
     GmailOutside, Zenon DEF Gmail!Next, Gmail!RunStep

-----------------------------------------------------------------------------
(* Graph: the delta tokens of the folders.                                   *)

GraphFeed == INSTANCE MailboxFeed WITH there <- Graph!There, passed <- Graph!Passed, skipped <- {}


GraphMail ==
    [ loc : [Messages -> Folders \cup {Nowhere}], at : [Messages -> Nat], clock : Nat, horizon : Nat ]

AnyFolder == CHOOSE f \in Folders : TRUE

GraphRun ==
    [ tokens : [Folders -> Nat], folders : SUBSET Folders, folder : Folders \cup {AnyFolder},
      resynced : BOOLEAN, paged : BOOLEAN, token : Nat, unlisted : SUBSET Messages,
      todo : SUBSET Messages, streak : Nat, failed : BOOLEAN ]

GraphTypes ==
    /\ mail \in GraphMail /\ run \in GraphRun
    /\ archived \subseteq Messages
    /\ stored \in [Folders -> Nat]
    /\ pc \in { "idle", "folders", "delta", "messages", "finish" }

\* No token was issued later than now, and no message came later.
GraphTimes ==
    /\ \A f \in Folders : stored[f] <= mail.clock + 1 /\ run.tokens[f] <= mail.clock + 1
    /\ run.token <= mail.clock + 1
    /\ \A m \in Messages : mail.at[m] <= mail.clock

\* What tokens have passed is in the archive, or not for it.
PassedBy(tokens) ==
    \A m \in Messages :
        mail.loc[m] \in Folders /\ mail.at[m] < tokens[mail.loc[m]] => m \in archived \cup Excused

GraphKept == PassedBy(stored)
GraphRunKept == ~ Failed => PassedBy(run.tokens)

\* What the round's token will have passed is, or is still to be looked at.
GraphCovered ==
    Paged /\ ~ Failed =>
        \A m \in Messages :
            mail.loc[m] = run.folder /\ mail.at[m] < run.token =>
                m \in archived \cup Excused \cup run.todo \cup run.unlisted

GraphPhases ==
    /\ pc \in { "delta", "messages" } => run.folder \in Folders
    /\ pc = "messages" => Paged
    /\ pc \in { "folders", "delta", "finish" } => run.todo = {}

GraphInv ==
    /\ GraphTypes /\ GraphTimes /\ GraphKept /\ GraphPhases
    /\ pc # "idle" => GraphRunKept
    /\ pc \in { "delta", "messages" } => GraphCovered

GraphFeedKept == GraphFeed!Next \/ UNCHANGED GraphFeed!vars

LEMMA GraphFields ==
  ASSUME GraphTypes
  PROVE  /\ run.tokens \in [Folders -> Nat] /\ run.folders \subseteq Folders /\ run.token \in Nat
         /\ run.streak \in Nat /\ run.failed \in BOOLEAN /\ run.paged \in BOOLEAN
         /\ run.todo \subseteq Messages /\ run.unlisted \subseteq Messages
         /\ mail.loc \in [Messages -> Folders \cup {Nowhere}] /\ mail.at \in [Messages -> Nat]
         /\ mail.clock \in Nat /\ mail.horizon \in Nat
  BY Zenon DEF GraphTypes, GraphRun, GraphMail

LEMMA GraphNewRun ==
  ASSUME NEW tokens \in [Folders -> Nat]
  PROVE  /\ Graph!NewRun(tokens) \in GraphRun /\ Graph!NewRun(tokens).tokens = tokens
         /\ Graph!NewRun(tokens).todo = {} /\ Graph!NewRun(tokens).token = 0
<1>1. {} \subseteq Messages /\ Folders \subseteq Folders /\ 0 \in Nat
  OBVIOUS
<1>2. AnyFolder \in Folders \cup {AnyFolder}
  OBVIOUS
<1> QED
  BY <1>1, <1>2, Zenon DEF Graph!NewRun, GraphRun, AnyFolder

LEMMA GraphNoRun ==
  /\ Graph!NoRun \in GraphRun /\ Graph!NoRun.todo = {} /\ Graph!NoRun.token = 0
  /\ \A f \in Folders : Graph!NoRun.tokens[f] = 0
<1>1. [f \in Folders |-> 0] \in [Folders -> Nat]
  OBVIOUS
<1> QED
  BY <1>1, GraphNewRun DEF Graph!NoRun

\* What the feed sees of the mailbox.
LEMMA GraphView ==
  ASSUME Graph!GraphAssumption, GraphTypes
  PROVE  /\ Graph!There = { m \in Messages : mail.loc[m] \in Folders }
         /\ Graph!Passed = { m \in Messages : mail.loc[m] \in Folders /\ mail.at[m] < stored[mail.loc[m]] }
  BY GraphFields DEF Graph!GraphAssumption, Graph!There, Graph!Passed

LEMMA GraphInit == Graph!GraphAssumption /\ Graph!Init => GraphInv /\ GraphFeed!Init
<1> SUFFICES ASSUME Graph!GraphAssumption, Graph!Init PROVE GraphInv /\ GraphFeed!Init
  OBVIOUS
<1>1. /\ mail = [ loc |-> [m \in Messages |-> Nowhere], at |-> [m \in Messages |-> 0],
                   clock |-> 0, horizon |-> 0 ]
      /\ archived = {} /\ stored = [f \in Folders |-> 0] /\ pc = "idle" /\ run = Graph!NoRun
  BY DEF Graph!Init
<1>2. mail \in GraphMail /\ mail.clock = 0
      /\ \A m \in Messages : mail.loc[m] = Nowhere /\ mail.at[m] = 0
  BY <1>1 DEF GraphMail
<1>3. GraphTypes
  BY <1>1, <1>2, GraphNoRun DEF GraphTypes
<1>4. GraphTimes /\ GraphKept /\ GraphPhases
  BY <1>1, <1>2, GraphNoRun DEF GraphTimes, GraphKept, PassedBy, GraphPhases, Graph!GraphAssumption
<1>5. Graph!There = {} /\ Graph!Passed = {}
  BY <1>2, <1>3, GraphView DEF Graph!GraphAssumption
<1> QED
  BY <1>1, <1>3, <1>4, <1>5 DEF GraphInv, GraphFeed!Init

LEMMA GraphStutter ==
  ASSUME UNCHANGED << mail, archived, stored >> PROVE GraphFeedKept
  BY DEF GraphFeedKept, GraphFeed!vars, Graph!There, Graph!Passed

LEMMA GraphIdle ==
  ASSUME GraphInv, UNCHANGED << mail, archived, stored >>, pc' = "idle", run' = Graph!NoRun
  PROVE  GraphInv' /\ GraphFeedKept
<1>0. GraphTypes /\ GraphTimes /\ GraphKept /\ mail.clock \in Nat
  BY GraphFields DEF GraphInv
<1>1. GraphTypes'
  BY <1>0, GraphNoRun DEF GraphTypes
<1>2. GraphTimes'
  BY <1>0, GraphNoRun DEF GraphTimes
<1> QED
  BY <1>0, <1>1, <1>2, GraphStutter DEF GraphInv, GraphKept, PassedBy, GraphPhases

LEMMA GraphStart == ASSUME GraphInv, Graph!Start PROVE GraphInv' /\ GraphFeedKept
<1>0. GraphTypes /\ GraphTimes /\ GraphKept /\ mail.clock \in Nat /\ stored \in [Folders -> Nat]
  BY GraphFields DEF GraphInv, GraphTypes
<1>1. run' = Graph!NewRun(stored) /\ pc' = "folders" /\ UNCHANGED << mail, archived, stored >>
  BY DEF Graph!Start
<1>2. run' \in GraphRun /\ run'.tokens = stored /\ run'.todo = {} /\ run'.token = 0
  BY <1>0, <1>1, GraphNewRun
<1> QED
  BY <1>0, <1>1, <1>2, GraphStutter DEF GraphInv, GraphTypes, GraphTimes, GraphKept, GraphRunKept, PassedBy,
     GraphPhases

LEMMA GraphFolder ==
  ASSUME GraphInv, NEW f \in Folders, Graph!NextFolder(f) PROVE GraphInv' /\ GraphFeedKept
<1>0. GraphTypes /\ GraphTimes /\ GraphKept /\ GraphPhases /\ pc = "folders" /\ GraphRunKept /\ mail.clock \in Nat
  BY GraphFields DEF GraphInv, Graph!NextFolder
<1> DEFINE rest == run.folders \ {f}
<1>1. /\ run' = [ run EXCEPT !.folders = rest, !.folder = f, !.resynced = FALSE,
                              !.paged = FALSE, !.token = 0, !.unlisted = {} ]
      /\ pc' = "delta" /\ UNCHANGED << mail, archived, stored >>
  BY Zenon DEF Graph!NextFolder
<1>2. rest \in SUBSET Folders /\ f \in Folders \cup {AnyFolder} /\ {} \in SUBSET Messages /\ 0 \in Nat
  BY <1>0, GraphFields
<1> HIDE DEF rest
<1>3. /\ run' \in GraphRun /\ run'.tokens = run.tokens /\ run'.todo = run.todo /\ run'.token = 0
      /\ run'.folder = f /\ run'.paged = FALSE /\ run'.failed = run.failed
  BY <1>0, <1>1, <1>2, Zenon DEF GraphRun, GraphTypes
<1>4. ~ Paged' /\ (Failed' <=> Failed)
  BY <1>3, Zenon DEF Paged, Failed
<1> QED
  BY <1>0, <1>1, <1>3, <1>4, GraphStutter
     DEF GraphInv, GraphTypes, GraphTimes, GraphKept, GraphRunKept, GraphCovered, PassedBy, GraphPhases

LEMMA GraphNoFolder == ASSUME GraphInv, Graph!NoFolderLeft PROVE GraphInv' /\ GraphFeedKept
<1>1. UNCHANGED << mail, archived, stored, run >> /\ pc = "folders" /\ pc' = "finish"
  BY DEF Graph!NoFolderLeft
<1>2. (Failed' <=> Failed)
  BY <1>1, Zenon DEF Failed
<1> QED
  BY <1>1, <1>2, GraphStutter
     DEF GraphInv, GraphTypes, GraphTimes, GraphKept, GraphRunKept, PassedBy, GraphPhases

LEMMA GraphPage == ASSUME GraphInv, Graph!DeltaPage PROVE GraphInv' /\ GraphFeedKept
<1>0. /\ GraphTypes /\ GraphTimes /\ GraphKept /\ GraphPhases /\ pc = "delta" /\ GraphRunKept
      /\ GraphCovered /\ mail.clock \in Nat /\ run.token \in Nat
  BY GraphFields DEF GraphInv, Graph!DeltaPage
<1> DEFINE rest == IF run.paged THEN run.unlisted ELSE Graph!Listing
           next == IF run.paged THEN run.token ELSE mail.clock + 1
<1>1. PICK page \in SUBSET rest :
        run' = [ run EXCEPT !.todo = page, !.unlisted = rest \ page, !.paged = TRUE, !.token = next ]
  BY Zenon DEF Graph!DeltaPage
<1>2. pc' = "messages" /\ UNCHANGED << mail, archived, stored >>
  BY DEF Graph!DeltaPage
<1>4. /\ Paged => rest = run.unlisted /\ next = run.token
      /\ ~ Paged => rest = Graph!Listing /\ next = mail.clock + 1
  BY <1>0, GraphFields, Zenon DEF Paged
<1>5. rest \subseteq Messages /\ next \in Nat /\ next <= mail.clock + 1
  BY <1>0, <1>4, GraphFields DEF GraphTimes, Graph!Listing
<1> HIDE DEF rest, next
<1>7. run \in GraphRun /\ page \in SUBSET Messages /\ rest \ page \in SUBSET Messages
  BY <1>0, <1>5 DEF GraphTypes
<1>8. /\ run' \in GraphRun /\ run'.todo = page /\ run'.unlisted = rest \ page
      /\ run'.paged = TRUE /\ run'.token = next /\ run'.failed = run.failed
      /\ run'.tokens = run.tokens /\ run'.folder = run.folder
  BY <1>1, <1>5, <1>7, Zenon DEF GraphRun
<1>9. Paged' /\ (Failed' <=> Failed)
  BY <1>8, Zenon DEF Paged, Failed
<1>10. ~ Failed => \A m \in Messages : mail.loc[m] = run.folder /\ mail.at[m] < next =>
                      m \in archived \cup Excused \cup rest
  <2>1. CASE Paged
    BY <1>0, <1>4, <2>1 DEF GraphCovered, GraphPhases
  <2>2. CASE ~ Paged
    <3>1. run.folder \in Folders /\ run.tokens[run.folder] \in Nat /\ \A m \in Messages : mail.at[m] \in Nat
      BY <1>0, GraphFields DEF GraphPhases
    <3> QED
      BY <1>0, <1>4, <2>2, <3>1 DEF GraphRunKept, PassedBy, Graph!Listing
  <2> QED
    BY <2>1, <2>2
<1>11. GraphCovered'
  BY <1>2, <1>8, <1>9, <1>10 DEF GraphCovered
<1> QED
  BY <1>0, <1>2, <1>5, <1>8, <1>9, <1>11, GraphStutter
     DEF GraphInv, GraphTypes, GraphTimes, GraphKept, GraphRunKept, PassedBy, GraphPhases

LEMMA GraphResync == ASSUME GraphInv, Graph!Resync PROVE GraphInv' /\ GraphFeedKept
<1>0. /\ GraphTypes /\ GraphTimes /\ GraphKept /\ GraphPhases /\ pc = "delta" /\ GraphRunKept /\ mail.clock \in Nat
      /\ run.folder \in Folders
  BY GraphFields DEF GraphInv, GraphPhases, Graph!Resync
<1> DEFINE less == [ run.tokens EXCEPT ![run.folder] = 0 ]
<1>1. /\ run' = [ run EXCEPT !.resynced = TRUE, !.paged = FALSE, !.token = 0, !.unlisted = {}, !.tokens = less ]
      /\ UNCHANGED << mail, archived, stored, pc >>
  BY Zenon DEF Graph!Resync
<1>2. /\ less \in [Folders -> Nat] /\ less[run.folder] = 0
      /\ \A f \in Folders : f # run.folder => less[f] = run.tokens[f]
      /\ {} \in SUBSET Messages /\ 0 \in Nat
  BY <1>0, GraphFields
<1> HIDE DEF less
<1>3. /\ run' \in GraphRun /\ run'.tokens = less /\ run'.todo = run.todo /\ run'.token = 0
      /\ run'.folder = run.folder /\ run'.paged = FALSE /\ run'.failed = run.failed
  BY <1>0, <1>1, <1>2, Zenon DEF GraphRun, GraphTypes
<1>4. ~ Paged' /\ (Failed' <=> Failed)
  BY <1>3, Zenon DEF Paged, Failed
<1>5. \A m \in Messages : mail.at[m] \in Nat
  BY <1>0, GraphFields
<1>6. GraphRunKept'
  BY <1>0, <1>1, <1>2, <1>3, <1>4, <1>5 DEF GraphRunKept, PassedBy
<1>7. GraphTimes'
  BY <1>0, <1>1, <1>2, <1>3 DEF GraphTimes
<1> QED
  BY <1>0, <1>1, <1>3, <1>4, <1>6, <1>7, GraphStutter
     DEF GraphInv, GraphTypes, GraphKept, GraphCovered, PassedBy, GraphPhases

LEMMA GraphAbandon == ASSUME GraphInv, Graph!Abandon PROVE GraphInv' /\ GraphFeedKept
<1>0. GraphTypes /\ GraphTimes /\ GraphKept /\ GraphPhases /\ pc = "delta"
  BY DEF GraphInv, Graph!Abandon
<1>1. Graph!Record("folders") /\ UNCHANGED << mail, archived, stored >>
  BY Zenon DEF Graph!Abandon
<1>2. CASE pc' = "idle" /\ run' = Graph!NoRun
  BY <1>1, <1>2, GraphIdle
<1>3. CASE pc' = "folders" /\ run' = [ run EXCEPT !.streak = @ + 1, !.failed = TRUE ]
  <2> DEFINE n == run.streak + 1
  <2>1. n \in Nat /\ run' = [ run EXCEPT !.streak = n, !.failed = TRUE ]
    BY <1>0, <1>3, GraphFields
  <2> HIDE DEF n
  <2>2. /\ run' \in GraphRun /\ run'.tokens = run.tokens /\ run'.todo = run.todo /\ run'.token = run.token
        /\ run'.failed = TRUE
    BY <1>0, <2>1, Zenon DEF GraphRun, GraphTypes
  <2>3. Failed'
    BY <2>2, Zenon DEF Failed
  <2> QED
    BY <1>0, <1>1, <1>3, <2>2, <2>3, GraphStutter
       DEF GraphInv, GraphTypes, GraphTimes, GraphKept, GraphRunKept, PassedBy, GraphPhases
<1> QED
  BY <1>1, <1>2, <1>3, Zenon DEF Graph!Record

\* A message has been looked at.
GraphLooked(m) ==
    /\ pc = "messages" /\ m \in run.todo
    /\ run' \in GraphRun
    /\ run'.todo = run.todo \ {m} /\ run'.unlisted = run.unlisted /\ run'.tokens = run.tokens
    /\ run'.token = run.token /\ run'.folder = run.folder
    /\ (Paged' <=> Paged)

LEMMA GraphHandle ==
  ASSUME GraphTypes, NEW m, NEW streak \in Nat, NEW failed \in BOOLEAN, Graph!Handle(m, streak, failed)
  PROVE  GraphLooked(m) /\ run'.failed = failed
<1> DEFINE S == run.todo \ {m}
<1>2. pc = "messages" /\ m \in run.todo
      /\ run' = [ run EXCEPT !.todo = S, !.streak = streak, !.failed = failed ]
  BY Zenon DEF Graph!Handle
<1>3. run \in GraphRun /\ S \in SUBSET Messages
  BY GraphFields DEF GraphTypes
<1>4. /\ run' \in GraphRun
      /\ run'.todo = S /\ run'.unlisted = run.unlisted /\ run'.tokens = run.tokens
      /\ run'.token = run.token /\ run'.folder = run.folder
      /\ run'.paged = run.paged /\ run'.failed = failed
  BY <1>2, <1>3, Zenon DEF GraphRun
<1> QED
  BY <1>2, <1>4, Zenon DEF GraphLooked, Paged

LEMMA GraphMessage ==
  ASSUME Graph!GraphAssumption, GraphInv, NEW m \in Messages, Graph!MessageStep(m)
  PROVE  GraphInv' /\ GraphFeedKept
<1>0. GraphTypes /\ GraphTimes /\ GraphKept /\ GraphPhases
  BY DEF GraphInv
<1>1. run.streak \in Nat /\ run.streak + 1 \in Nat /\ 0 \in Nat /\ run.failed \in BOOLEAN
  BY <1>0, GraphFields
<1>2. CASE pc' = "idle" /\ run' = Graph!NoRun /\ UNCHANGED << mail, archived, stored >>
  BY <1>2, GraphIdle
<1>3. CASE /\ GraphLooked(m) /\ mail' = mail /\ stored' = stored /\ pc' = pc
           /\ \/ archived' = archived
              \/ (Graph!Archivable(m) /\ archived' = archived \cup {m})
           /\ Failed' \/ ((Failed' <=> Failed) /\ (m \in Graph!There => m \in archived' \cup Excused))
  <2>0. pc = "messages" /\ GraphCovered /\ GraphRunKept /\ archived \subseteq archived'
    BY <1>3 DEF GraphInv, GraphLooked
  <2>1. GraphTypes'
    BY <1>0, <1>3 DEF GraphTypes, GraphLooked
  <2>2. GraphKept' /\ GraphTimes' /\ GraphRunKept'
    BY <1>0, <1>3, <2>0 DEF GraphKept, GraphTimes, GraphRunKept, PassedBy, GraphLooked
  <2>3. GraphCovered'
    <3>1. run.folder \in Folders
      BY <1>0, <2>0 DEF GraphPhases
    <3>2. mail.loc[m] = run.folder => m \in Graph!There
      BY <3>1 DEF Graph!There, Graph!GraphAssumption
    <3> QED
      BY <1>3, <2>0, <3>1, <3>2 DEF GraphCovered, GraphLooked
  <2>4. GraphPhases'
    BY <1>0, <1>3 DEF GraphPhases, GraphLooked
  <2>5. GraphFeedKept
    <3>1. CASE archived' = archived
      BY <1>3, <3>1, GraphStutter
    <3>2. CASE Graph!Archivable(m) /\ archived' = archived \cup {m}
      <4>1. GraphFeed!Archive(m)
        BY <1>3, <3>2 DEF GraphFeed!Archive, Graph!Archivable, Graph!There, Graph!Passed
      <4> QED
        BY <4>1 DEF GraphFeedKept, GraphFeed!Next
    <3> QED
      BY <1>3, <3>1, <3>2
  <2> QED
    BY <1>3, <2>0, <2>1, <2>2, <2>3, <2>4, <2>5 DEF GraphInv
<1>4. CASE Graph!Duplicate(m) \/ Graph!Skip(m)
  <2>1. PICK streak \in Nat : Graph!Handle(m, streak, run.failed)
    BY <1>1, <1>4, Zenon DEF Graph!Duplicate, Graph!Skip
  <2>2. GraphLooked(m) /\ run'.failed = run.failed
    BY <1>0, <1>1, <2>1, GraphHandle
  <2>3. Failed' <=> Failed
    BY <2>2, Zenon DEF Failed
  <2>4. UNCHANGED << mail, archived, stored, pc >> /\ (m \in Graph!There => m \in archived \cup Excused)
    BY <1>4 DEF Graph!Duplicate, Graph!Skip, Graph!Archivable
  <2> QED
    BY <1>3, <2>2, <2>3, <2>4
<1>5. CASE Graph!Archive(m)
  <2>1. Graph!Handle(m, 0, run.failed)
    BY <1>5 DEF Graph!Archive
  <2>2. GraphLooked(m) /\ run'.failed = run.failed
    BY <1>0, <1>1, <2>1, GraphHandle
  <2>3. Failed' <=> Failed
    BY <2>2, Zenon DEF Failed
  <2>4. UNCHANGED << mail, stored, pc >> /\ Graph!Archivable(m) /\ archived' = archived \cup {m}
    BY <1>5 DEF Graph!Archive
  <2> QED
    BY <1>3, <2>2, <2>3, <2>4
<1>6. CASE Graph!ArchiveFails(m) \/ Graph!FetchFails(m)
  <2>1. UNCHANGED << mail, archived, stored >>
    BY <1>6 DEF Graph!ArchiveFails, Graph!FetchFails
  <2>2. CASE ~ (pc' = "idle" /\ run' = Graph!NoRun)
    <3>1. PICK streak \in Nat : Graph!Handle(m, streak, TRUE)
      BY <1>1, <1>6, <2>2, Zenon DEF Graph!ArchiveFails, Graph!FetchFails
    <3>2. GraphLooked(m) /\ run'.failed = TRUE
      BY <1>0, <3>1, GraphHandle, Zenon
    <3>3. Failed'
      BY <3>2, Zenon DEF Failed
    <3>4. pc' = pc
      BY <1>6, <2>2 DEF Graph!ArchiveFails, Graph!FetchFails
    <3>5. mail' = mail /\ stored' = stored /\ archived' = archived
      BY <2>1, <3>4
    <3> QED
      BY <1>3, <3>2, <3>3, <3>4, <3>5
  <2> QED
    BY <1>2, <2>1, <2>2
<1> QED
  BY <1>4, <1>5, <1>6 DEF Graph!MessageStep

LEMMA GraphPageDone == ASSUME GraphInv, Graph!PageDone PROVE GraphInv' /\ GraphFeedKept
<1>0. /\ GraphTypes /\ GraphTimes /\ GraphKept /\ GraphPhases /\ pc = "messages" /\ GraphRunKept
      /\ GraphCovered /\ mail.clock \in Nat /\ run.token \in Nat /\ run.folder \in Folders /\ Paged
      /\ run.tokens \in [Folders -> Nat] /\ \A m \in Messages : mail.at[m] \in Nat
  BY GraphFields DEF GraphInv, GraphPhases, Graph!PageDone
<1>1. /\ run' = [ run EXCEPT !.tokens = Graph!TokenAfterPage ] /\ run.todo = {}
      /\ pc' = (IF run.unlisted = {} THEN "folders" ELSE "delta")
      /\ UNCHANGED << mail, archived, stored >>
  BY DEF Graph!PageDone
<1>2. /\ Graph!TokenAfterPage \in [Folders -> Nat]
      /\ \A f \in Folders : \/ Graph!TokenAfterPage[f] = run.tokens[f]
                             \/ (run.unlisted = {} /\ f = run.folder /\ Graph!TokenAfterPage[f] = run.token)
  <2>1. CASE run.unlisted = {}
    <3>1. Graph!TokenAfterPage = [ run.tokens EXCEPT ![run.folder] = run.token ]
      BY <2>1 DEF Graph!TokenAfterPage
    <3> QED
      BY <1>0, <2>1, <3>1
  <2>2. CASE run.unlisted # {}
    <3>1. Graph!TokenAfterPage = run.tokens
      BY <2>2 DEF Graph!TokenAfterPage
    <3> QED
      BY <1>0, <3>1
  <2> QED
    BY <2>1, <2>2
<1>3. /\ run' \in GraphRun /\ run'.tokens = Graph!TokenAfterPage /\ run'.todo = run.todo /\ run'.token = run.token
      /\ run'.folder = run.folder /\ run'.paged = run.paged /\ run'.failed = run.failed
      /\ run'.unlisted = run.unlisted
  BY <1>0, <1>1, <1>2, Zenon DEF GraphRun, GraphTypes
<1>4. (Paged' <=> Paged) /\ (Failed' <=> Failed)
  BY <1>3, Zenon DEF Paged, Failed
<1>5. GraphRunKept'
  <2>1. \A m \in Messages : ~ Failed /\ mail.loc[m] \in Folders /\ mail.at[m] < Graph!TokenAfterPage[mail.loc[m]]
                              => m \in archived \cup Excused
    BY <1>0, <1>1, <1>2 DEF GraphRunKept, PassedBy, GraphCovered
  <2> QED
    BY <1>1, <1>3, <1>4, <2>1 DEF GraphRunKept, PassedBy
<1>6. GraphTimes'
  BY <1>0, <1>1, <1>2, <1>3 DEF GraphTimes
<1>7. GraphCovered'
  BY <1>0, <1>1, <1>3, <1>4 DEF GraphCovered
<1> QED
  BY <1>0, <1>1, <1>3, <1>4, <1>5, <1>6, <1>7, GraphStutter
     DEF GraphInv, GraphTypes, GraphKept, PassedBy, GraphPhases

LEMMA GraphFinish == ASSUME Graph!GraphAssumption, GraphInv, Graph!Finish PROVE GraphInv' /\ GraphFeedKept
<1>0. GraphTypes /\ GraphTimes /\ GraphKept /\ GraphRunKept /\ mail.clock \in Nat
  BY GraphFields DEF GraphInv, Graph!Finish
<1>1. UNCHANGED << mail, archived >> /\ pc' = "idle" /\ run' = Graph!NoRun
  BY DEF Graph!Finish
<1>2. stored' = stored \/ (~ Failed /\ stored' = run.tokens)
  <2>1. run.failed \in BOOLEAN
    BY <1>0, GraphFields
  <2> QED
    BY <2>1, Zenon DEF Graph!Finish, Failed
<1>3. GraphKept'
  BY <1>0, <1>1, <1>2 DEF GraphKept, GraphRunKept, PassedBy
<1>4. GraphTypes' /\ GraphTimes'
  BY <1>0, <1>1, <1>2, GraphNoRun, GraphFields DEF GraphTypes, GraphTimes
<1>5. /\ Graph!There = { m \in Messages : mail.loc[m] \in Folders } /\ Graph!There' = Graph!There
      /\ Graph!Passed' = { m \in Messages : mail.loc[m] \in Folders /\ mail.at[m] < stored'[mail.loc[m]] }
  <2>1. Graph!There' = Graph!There
    BY <1>1 DEF Graph!There
  <2>2. Graph!Passed' = { m \in Messages : mail'.loc[m] \in Folders /\ mail'.at[m] < stored'[mail'.loc[m]] }
    BY <1>4, GraphFields DEF Graph!GraphAssumption, GraphTypes, GraphMail, Graph!There, Graph!Passed
  <2> QED
    BY <1>0, <1>1, <2>1, <2>2, GraphView
<1>6. Graph!Passed' \subseteq Graph!There \cap (archived \cup Excused) /\ Graph!Passed' \in SUBSET Messages
  BY <1>1, <1>3, <1>5 DEF GraphKept, PassedBy
<1>7. GraphFeed!Advance(Graph!Passed')
  BY <1>1, <1>5, <1>6 DEF GraphFeed!Advance
<1> QED
  BY <1>1, <1>3, <1>4, <1>6, <1>7 DEF GraphInv, GraphPhases, GraphFeedKept, GraphFeed!Next

\* A message comes to a folder, or leaves; at the message's and the clock's new state.
LEMMA GraphMoves ==
  ASSUME Graph!GraphAssumption, GraphInv, NEW m \in Messages, NEW to \in Folders \cup {Nowhere},
         UNCHANGED << archived, stored, pc, run >>,
         mail' \in GraphMail, mail'.clock = mail.clock + 1, 
         \A k \in Messages : k # m => mail'.loc[k] = mail.loc[k] /\ mail'.at[k] = mail.at[k],
         mail'.loc[m] = to,
         (to \in Folders /\ mail'.at[m] = mail.clock + 1) \/ (to = Nowhere /\ mail'.at[m] = mail.at[m])
  PROVE  GraphInv' /\ mail'.at[m] \in Nat /\ mail.at[m] \in Nat
         /\ (to \in Folders => ~ (mail'.at[m] < stored[to]))
<1>0. GraphTypes /\ GraphTimes /\ GraphKept /\ GraphPhases /\ mail.clock \in Nat /\ run.token \in Nat
      /\ run.tokens \in [Folders -> Nat] /\ stored \in [Folders -> Nat] /\ Nowhere \notin Folders
  BY GraphFields DEF GraphInv, GraphTypes, Graph!GraphAssumption
<1>1. \A k \in Messages : mail.at[k] \in Nat /\ mail'.at[k] \in Nat
  BY <1>0, GraphFields DEF GraphMail
<1>2. (Paged' <=> Paged) /\ (Failed' <=> Failed)
  BY Zenon DEF Paged, Failed
<1>3. \A tokens \in [Folders -> Nat] :
        (\A f \in Folders : tokens[f] <= mail.clock + 1) =>
            (PassedBy(tokens) => \A k \in Messages :
                mail'.loc[k] \in Folders /\ mail'.at[k] < tokens[mail'.loc[k]] => k \in archived \cup Excused)
  BY <1>0, <1>1 DEF PassedBy
<1>4. GraphTypes'
  BY <1>0 DEF GraphTypes
<1>5. GraphTimes'
  BY <1>0, <1>1 DEF GraphTimes
<1>6. GraphKept'
  BY <1>0, <1>3 DEF GraphKept, GraphTimes, PassedBy
<1>7. GraphRunKept => GraphRunKept'
  BY <1>0, <1>2, <1>3 DEF GraphRunKept, GraphTimes, PassedBy
<1>8. run.folder \in Folders /\ GraphCovered => GraphCovered'
  BY <1>0, <1>1, <1>2 DEF GraphCovered, GraphTimes
<1>9. GraphPhases'
  BY <1>0, <1>2 DEF GraphPhases
<1> QED
  BY <1>0, <1>1, <1>4, <1>5, <1>6, <1>7, <1>8, <1>9 DEF GraphInv, GraphPhases, GraphTimes

LEMMA GraphDeliver ==
  ASSUME Graph!GraphAssumption, GraphInv, NEW m \in Messages, NEW f \in Folders, Graph!Deliver(m, f)
  PROVE  GraphInv' /\ GraphFeedKept
<1>0. GraphTypes /\ mail \in GraphMail /\ Nowhere \notin Folders
  BY DEF GraphInv, GraphTypes, Graph!GraphAssumption
<1>1. /\ mail' = [ mail EXCEPT !.clock = @ + 1, !.loc[m] = f, !.at[m] = mail.clock + 1 ]
      /\ UNCHANGED << archived, stored, pc, run >>
  BY DEF Graph!Deliver
<1>2. /\ mail' \in GraphMail /\ mail'.clock = mail.clock + 1
      /\ mail'.loc = [ mail.loc EXCEPT ![m] = f ] /\ mail'.at = [ mail.at EXCEPT ![m] = mail.clock + 1 ]
  <2> DEFINE loc == [ mail.loc EXCEPT ![m] = f ]
             at == [ mail.at EXCEPT ![m] = mail.clock + 1 ]
             now == mail.clock + 1
  <2>1. loc \in [Messages -> Folders \cup {Nowhere}] /\ at \in [Messages -> Nat] /\ now \in Nat
    BY <1>0, GraphFields
  <2>2. mail' = [ mail EXCEPT !.clock = now, !.loc = loc, !.at = at ]
    BY <1>1, Zenon
  <2> HIDE DEF loc, at, now
  <2>3. mail' \in GraphMail /\ mail'.clock = now /\ mail'.loc = loc /\ mail'.at = at
    BY <1>0, <2>1, <2>2, Zenon DEF GraphMail
  <2> QED
    BY <2>3 DEF loc, at, now
<1>3. \A k \in Messages : k # m => mail'.loc[k] = mail.loc[k] /\ mail'.at[k] = mail.at[k]
  BY <1>0, <1>2, GraphFields
<1>4. mail'.loc[m] = f /\ mail'.at[m] = mail.clock + 1
  BY <1>0, <1>2, GraphFields
<1>5. GraphInv' /\ ~ (mail'.at[m] < stored[f])
  BY <1>1, <1>2, <1>3, <1>4, GraphMoves
<1>6. /\ Graph!There = { k \in Messages : mail.loc[k] \in Folders }
      /\ Graph!Passed = { k \in Messages : mail.loc[k] \in Folders /\ mail.at[k] < stored[mail.loc[k]] }
      /\ Graph!There' = { k \in Messages : mail'.loc[k] \in Folders }
      /\ Graph!Passed' = { k \in Messages : mail'.loc[k] \in Folders /\ mail'.at[k] < stored[mail'.loc[k]] }
  <2>1. GraphTypes' /\ stored' = stored
    BY <1>1, <1>5 DEF GraphInv
  <2>2. mail'.loc \in [Messages -> Folders \cup {Nowhere}]
    BY <1>2 DEF GraphMail
  <2> QED
    BY <1>0, <2>1, <2>2, GraphView DEF Graph!GraphAssumption, Graph!There, Graph!Passed
<1>7. Graph!There' = Graph!There \cup {m} /\ Graph!Passed' = Graph!Passed \ {m}
  BY <1>3, <1>4, <1>5, <1>6
<1>8. CASE m \notin Graph!There
  <2>1. GraphFeed!Arrive(m)
    BY <1>1, <1>6, <1>7, <1>8 DEF GraphFeed!Arrive
  <2> QED
    BY <1>5, <2>1 DEF GraphFeedKept, GraphFeed!Next
<1>9. CASE m \in Graph!There
  <2>1. Graph!Passed' \subseteq Graph!There \cap (archived \cup Excused) /\ Graph!Passed' \in SUBSET Messages
    BY <1>6, <1>7 DEF GraphInv, GraphKept, PassedBy
  <2>2. GraphFeed!Advance(Graph!Passed')
    BY <1>1, <1>7, <1>9, <2>1 DEF GraphFeed!Advance
  <2> QED
    BY <1>5, <2>1, <2>2 DEF GraphFeedKept, GraphFeed!Next
<1> QED
  BY <1>8, <1>9

LEMMA GraphVanish ==
  ASSUME Graph!GraphAssumption, GraphInv, NEW m \in Messages, Graph!Vanish(m)
  PROVE  GraphInv' /\ GraphFeedKept
<1>0. GraphTypes /\ mail \in GraphMail /\ Nowhere \notin Folders
  BY DEF GraphInv, GraphTypes, Graph!GraphAssumption
<1>1. /\ mail' = [ mail EXCEPT !.clock = @ + 1, !.loc[m] = Nowhere ]
      /\ UNCHANGED << archived, stored, pc, run >> /\ mail.loc[m] # Nowhere
  BY DEF Graph!Vanish
<1>2. /\ mail' \in GraphMail /\ mail'.clock = mail.clock + 1
      /\ mail'.loc = [ mail.loc EXCEPT ![m] = Nowhere ] /\ mail'.at = mail.at
  <2> DEFINE loc == [ mail.loc EXCEPT ![m] = Nowhere ]
             now == mail.clock + 1
  <2>1. loc \in [Messages -> Folders \cup {Nowhere}] /\ now \in Nat
    BY <1>0, GraphFields
  <2>2. mail' = [ mail EXCEPT !.clock = now, !.loc = loc ]
    BY <1>1, Zenon
  <2> HIDE DEF loc, now
  <2>3. mail' \in GraphMail /\ mail'.clock = now /\ mail'.loc = loc /\ mail'.at = mail.at
    BY <1>0, <2>1, <2>2, Zenon DEF GraphMail
  <2> QED
    BY <2>3 DEF loc, now
<1>3. \A k \in Messages : k # m => mail'.loc[k] = mail.loc[k] /\ mail'.at[k] = mail.at[k]
  BY <1>0, <1>2, GraphFields
<1>4. mail'.loc[m] = Nowhere /\ mail'.at[m] = mail.at[m]
  BY <1>0, <1>2, GraphFields
<1>5. GraphInv'
  BY <1>1, <1>2, <1>3, <1>4, GraphMoves
<1>6. m \in Graph!There /\ Graph!There' = Graph!There \ {m} /\ Graph!Passed' = Graph!Passed \ {m}
  BY <1>1, <1>3, <1>4 DEF Graph!There, Graph!Passed
<1>7. GraphFeed!Vanish(m)
  BY <1>1, <1>6 DEF GraphFeed!Vanish
<1> QED
  BY <1>5, <1>7 DEF GraphFeedKept, GraphFeed!Next

LEMMA GraphExpire == ASSUME GraphInv, Graph!Expire PROVE GraphInv' /\ GraphFeedKept
<1>0. /\ GraphTypes /\ GraphTimes /\ GraphKept /\ GraphPhases /\ mail \in GraphMail /\ mail.clock \in Nat
      /\ run.token \in Nat /\ run.tokens \in [Folders -> Nat] /\ stored \in [Folders -> Nat]
  BY GraphFields DEF GraphInv, GraphTypes
<1>1. /\ mail' = [ mail EXCEPT !.clock = @ + 1, !.horizon = mail.clock + 1 ]
      /\ UNCHANGED << archived, stored, pc, run >>
  BY DEF Graph!Expire
<1>2. /\ mail' \in GraphMail /\ mail'.clock = mail.clock + 1 /\ mail'.loc = mail.loc /\ mail'.at = mail.at
  <2> DEFINE now == mail.clock + 1
  <2>1. now \in Nat /\ mail' = [ mail EXCEPT !.clock = now, !.horizon = now ]
    BY <1>0, <1>1
  <2> HIDE DEF now
  <2>2. mail' \in GraphMail /\ mail'.clock = now /\ mail'.loc = mail.loc /\ mail'.at = mail.at
    BY <1>0, <2>1, Zenon DEF GraphMail
  <2> QED
    BY <2>2 DEF now
<1>3. (Paged' <=> Paged) /\ (Failed' <=> Failed)
  BY <1>1, Zenon DEF Paged, Failed
<1>4. GraphTypes'
  BY <1>0, <1>1, <1>2 DEF GraphTypes
<1>5. GraphTimes'
  <2>1. \A m \in Messages : mail.at[m] \in Nat
    BY <1>0, GraphFields
  <2> QED
    BY <1>0, <1>1, <1>2, <2>1 DEF GraphTimes
<1> QED
  BY <1>0, <1>1, <1>2, <1>3, <1>4, <1>5
     DEF GraphInv, GraphKept, GraphRunKept, GraphCovered, PassedBy, GraphPhases, GraphFeedKept, GraphFeed!vars,
         Graph!There, Graph!Passed

LEMMA GraphNext == Graph!GraphAssumption /\ GraphInv /\ Graph!Next => GraphInv' /\ GraphFeedKept
<1> SUFFICES ASSUME Graph!GraphAssumption, GraphInv, Graph!Next PROVE GraphInv' /\ GraphFeedKept
  OBVIOUS
<1>1. CASE Graph!FoldersFail \/ Graph!Crash
  <2>1. Graph!Abort
    BY <1>1, Zenon DEF Graph!FoldersFail, Graph!Crash
  <2> QED
    BY <2>1, GraphIdle DEF Graph!Abort
<1> QED
  BY <1>1, GraphStart, GraphFolder, GraphNoFolder, GraphPage, GraphResync, GraphAbandon, GraphMessage,
     GraphPageDone, GraphFinish, GraphDeliver, GraphVanish, GraphExpire, Zenon DEF Graph!Next, Graph!RunStep

-----------------------------------------------------------------------------
(* IMAP: the highest UID of each folder.                                     *)

ImapFeed == INSTANCE MailboxFeed WITH there <- Imap!There, passed <- Imap!Passed


ImapMail ==
    [ loc : [Messages -> Folders \cup {Nowhere}], uid : [Messages -> Nat], top : [Folders -> Nat] ]


ImapRun ==
    [ newMax : [Folders -> Nat], folders : SUBSET Folders, folder : Folders \cup {AnyFolder},
      start : Nat, upto : Nat, todo : SUBSET Messages, failed : BOOLEAN ]

ImapTypes ==
    /\ mail \in ImapMail /\ run \in ImapRun
    /\ archived \subseteq Messages
    /\ stored \in [Folders -> Nat]
    /\ pc \in { "idle", "list", "folders", "batch", "fetch", "finish" }

\* No folder has given out the UID that its next message gets.
ImapUids ==
    /\ \A f \in Folders : stored[f] <= mail.top[f] /\ run.newMax[f] <= mail.top[f]
    /\ \A m \in Messages : mail.loc[m] \in Folders => mail.uid[m] <= mail.top[mail.loc[m]]
    /\ pc \in { "batch", "fetch" } =>
          /\ run.folder \in Folders \ run.folders
          /\ run.start <= mail.top[run.folder] + 1 /\ run.upto <= mail.top[run.folder]

Safe == archived \cup Excused \cup skipped

\* What the stored UIDs have passed is in the archive, not for it, or was given up.
ImapKept ==
    \A m \in Messages :
        mail.loc[m] \in Folders /\ mail.uid[m] <= stored[mail.loc[m]] => m \in Safe

\* So is what the run's UIDs have passed, but in the folder it is fetching from.
ImapRunKept ==
    ~ Failed =>
        \A m \in Messages :
            mail.loc[m] \in Folders /\ mail.uid[m] <= run.newMax[mail.loc[m]] =>
                m \in Safe \/ (pc = "fetch" /\ mail.loc[m] = run.folder)

\* There, every UID below the next window is done with.
ImapBatch ==
    /\ run.newMax[run.folder] < run.start
    /\ ~ Failed =>
          \A m \in Messages : mail.loc[m] = run.folder /\ mail.uid[m] < run.start => m \in Safe

\* Of the window at hand, what is not done with is still to be fetched.
ImapWindow ==
    /\ run.start <= run.upto /\ run.newMax[run.folder] <= Imap!WindowEnd
    /\ ~ Failed =>
          \A m \in Messages :
              mail.loc[m] = run.folder /\ mail.uid[m] <= Imap!WindowEnd => m \in Safe \cup run.todo

ImapPhases ==
    /\ pc # "idle" => (ImapRunKept /\ \A f \in run.folders : run.newMax[f] = stored[f])
    /\ pc = "batch" => ImapBatch
    /\ pc = "fetch" => ImapWindow
    /\ run.todo \cap Excused = {}

ImapInv == ImapTypes /\ ImapUids /\ ImapKept /\ ImapPhases

ImapFeedKept == ImapFeed!Next \/ UNCHANGED ImapFeed!vars

-----------------------------------------------------------------------------
\* A set of naturals has a smallest one.
LEMMA Least ==
  ASSUME NEW T \in SUBSET Nat, T # {}
  PROVE  \E m \in T : \A k \in T : m <= k
<1> DEFINE U == { 0 .. k : k \in T }
           W == StrictSubsetOrdering(Nat)
<1>1. \A k \in T : 0 .. k \in FiniteSubsetsOf(Nat)
  BY FS_Interval DEF FiniteSubsetsOf
<1>2. U \subseteq FiniteSubsetsOf(Nat) /\ U # {}
  BY <1>1
<1>3. PICK m \in T : \A k \in T : ~ (<< 0 .. k, 0 .. m >> \in W)
  <2>1. IsWellFoundedOn(W, FiniteSubsetsOf(Nat))
    BY FS_StrictSubsetOrderingWellFounded
  <2> HIDE DEF W, U
  <2>2. PICK x \in U : \A y \in U : ~ (<< y, x >> \in W)
    BY <1>2, <2>1, WFMin
  <2> USE DEF U
  <2> QED
    BY <2>2
<1>4. ASSUME NEW k \in T, k < m PROVE FALSE
  <2>1. 0 .. k \subseteq 0 .. m /\ m \in 0 .. m /\ m \notin 0 .. k
    BY <1>4
  <2>2. << 0 .. k, 0 .. m >> \in W
    BY <2>1 DEF StrictSubsetOrdering
  <2> QED
    BY <1>3, <2>2
<1> QED
  BY <1>3, <1>4

\* A bounded one has a largest: its smallest upper bound.
LEMMA Greatest ==
  ASSUME NEW T \in SUBSET Nat, T # {}, NEW b \in Nat, \A k \in T : k <= b
  PROVE  \E m \in T : \A k \in T : k <= m
<1> DEFINE Over == { n \in Nat : \A k \in T : k <= n }
<1>1. Over \in SUBSET Nat /\ Over # {}
  OBVIOUS
<1>2. PICK m \in Over : \A n \in Over : m <= n
  BY <1>1, Least
<1>3. ASSUME m \notin T PROVE FALSE
  <2>1. \A k \in T : k < m
    BY <1>2, <1>3
  <2>2. PICK k \in T : k \in Nat
    OBVIOUS
  <2>3. m - 1 \in Nat
    BY <1>2, <2>1, <2>2
  <2>4. \A j \in T : j <= m - 1
    BY <1>2, <2>1
  <2>5. m - 1 \in Over /\ ~ (m <= m - 1)
    BY <1>2, <2>3, <2>4
  <2> QED
    BY <1>2, <2>5
<1> QED
  BY <1>2, <1>3

-----------------------------------------------------------------------------
LEMMA ImapFields ==
  ASSUME ImapTypes
  PROVE  /\ run.newMax \in [Folders -> Nat] /\ run.folders \subseteq Folders /\ run.start \in Nat
         /\ run.upto \in Nat /\ run.todo \subseteq Messages /\ run.failed \in BOOLEAN
         /\ mail.loc \in [Messages -> Folders \cup {Nowhere}] /\ mail.uid \in [Messages -> Nat]
         /\ mail.top \in [Folders -> Nat]
  BY Zenon DEF ImapTypes, ImapRun, ImapMail

LEMMA ImapHighest ==
  ASSUME ImapTypes, NEW low \in Nat, NEW S \in SUBSET Messages, NEW b \in Nat, low <= b,
         \A m \in S : mail.uid[m] <= b
  PROVE  /\ Imap!Highest(low, S) \in Nat /\ low <= Imap!Highest(low, S) /\ Imap!Highest(low, S) <= b
         /\ \A m \in S : mail.uid[m] <= Imap!Highest(low, S)
<1> DEFINE T == {low} \cup { mail.uid[m] : m \in S }
<1>1. T \in SUBSET Nat /\ T # {} /\ \A k \in T : k <= b
  BY ImapFields
<1>2. PICK u \in T : \A k \in T : k <= u
  BY <1>1, Greatest
<1>3. u >= low /\ \A m \in S : mail.uid[m] <= u
  BY <1>1, <1>2
<1>4. Imap!Highest(low, S) \in T /\ Imap!Highest(low, S) >= low /\ \A m \in S : mail.uid[m] <= Imap!Highest(low, S)
  BY <1>3 DEF Imap!Highest
<1> QED
  BY <1>1, <1>4

LEMMA ImapNewRun ==
  ASSUME NEW max \in [Folders -> Nat]
  PROVE  /\ Imap!NewRun(max) \in ImapRun /\ Imap!NewRun(max).newMax = max /\ Imap!NewRun(max).todo = {}
<1>1. {} \subseteq Messages /\ Folders \subseteq Folders /\ 0 \in Nat /\ 1 \in Nat
  OBVIOUS
<1>2. AnyFolder \in Folders \cup {AnyFolder}
  OBVIOUS
<1> QED
  BY <1>1, <1>2, Zenon DEF Imap!NewRun, ImapRun, AnyFolder

LEMMA ImapNoRun ==
  Imap!NoRun \in ImapRun /\ Imap!NoRun.todo = {} /\ \A f \in Folders : Imap!NoRun.newMax[f] = 0
<1>1. [f \in Folders |-> 0] \in [Folders -> Nat]
  OBVIOUS
<1> QED
  BY <1>1, ImapNewRun DEF Imap!NoRun

LEMMA ImapView ==
  ASSUME Imap!ImapAssumption, ImapTypes
  PROVE  /\ Imap!There = { m \in Messages : mail.loc[m] \in Folders }
         /\ Imap!Passed = { m \in Messages : mail.loc[m] \in Folders /\ mail.uid[m] <= stored[mail.loc[m]] }
  BY ImapFields DEF Imap!ImapAssumption, Imap!There, Imap!Passed

LEMMA ImapInit == Imap!ImapAssumption /\ Imap!Init => ImapInv /\ ImapFeed!Init
<1> SUFFICES ASSUME Imap!ImapAssumption, Imap!Init PROVE ImapInv /\ ImapFeed!Init
  OBVIOUS
<1>1. /\ mail = [ loc |-> [m \in Messages |-> Nowhere], uid |-> [m \in Messages |-> 0],
                  top |-> [f \in Folders |-> 0] ]
      /\ archived = {} /\ stored = [f \in Folders |-> 0] /\ pc = "idle" /\ run = Imap!NoRun
      /\ skipped = {}
  BY DEF Imap!Init
<1>2. /\ mail \in ImapMail /\ \A f \in Folders : mail.top[f] = 0
      /\ \A m \in Messages : mail.loc[m] = Nowhere /\ mail.uid[m] = 0
  BY <1>1 DEF ImapMail
<1>3. ImapTypes
  BY <1>1, <1>2, ImapNoRun DEF ImapTypes
<1>4. ImapUids /\ ImapKept /\ ImapPhases
  BY <1>1, <1>2, ImapNoRun DEF ImapUids, ImapKept, ImapPhases, Imap!ImapAssumption
<1>5. Imap!There = {} /\ Imap!Passed = {}
  BY <1>2, <1>3, ImapView DEF Imap!ImapAssumption
<1> QED
  BY <1>1, <1>3, <1>4, <1>5 DEF ImapInv, ImapFeed!Init

LEMMA ImapStutter ==
  ASSUME UNCHANGED << mail, archived, stored, skipped >> PROVE ImapFeedKept
  BY DEF ImapFeedKept, ImapFeed!vars, Imap!There, Imap!Passed

LEMMA ImapIdle ==
  ASSUME ImapInv, UNCHANGED << mail, archived, stored, skipped >>, pc' = "idle", run' = Imap!NoRun
  PROVE  ImapInv' /\ ImapFeedKept
<1>0. ImapTypes /\ ImapUids /\ ImapKept /\ mail.top \in [Folders -> Nat]
  BY ImapFields DEF ImapInv
<1>1. ImapTypes'
  BY <1>0, ImapNoRun DEF ImapTypes
<1>2. ImapUids'
  BY <1>0, ImapNoRun DEF ImapUids
<1> QED
  BY <1>0, <1>1, <1>2, ImapNoRun, ImapStutter DEF ImapInv, ImapKept, ImapPhases, Safe

LEMMA ImapStart == ASSUME ImapInv, Imap!Start PROVE ImapInv' /\ ImapFeedKept
<1>0. ImapTypes /\ ImapUids /\ ImapKept /\ stored \in [Folders -> Nat]
  BY DEF ImapInv, ImapTypes
<1>1. run' = Imap!NewRun(stored) /\ pc' = "list" /\ UNCHANGED << mail, archived, stored, skipped >>
  BY DEF Imap!Start
<1>2. run' \in ImapRun /\ run'.newMax = stored /\ run'.todo = {}
  BY <1>0, <1>1, ImapNewRun
<1>3. run'.folders \subseteq Folders
  BY <1>2, Zenon DEF ImapRun
<1>4. ImapRunKept'
  BY <1>0, <1>1, <1>2 DEF ImapRunKept, ImapKept, Safe
<1> QED
  BY <1>0, <1>1, <1>2, <1>3, <1>4, ImapStutter DEF ImapInv, ImapTypes, ImapUids, ImapKept, ImapPhases, Safe

LEMMA ImapWalk ==
  ASSUME ImapInv, Imap!ListFolders \/ Imap!NoFolderLeft \/ Imap!FolderDone PROVE ImapInv' /\ ImapFeedKept
<1>1. UNCHANGED << mail, archived, stored, run, skipped >> /\ pc \in { "list", "folders", "batch" }
      /\ pc' \in { "folders", "finish" }
  BY DEF Imap!ListFolders, Imap!NoFolderLeft, Imap!FolderDone
<1>2. Failed' <=> Failed
  BY <1>1, Zenon DEF Failed
<1> QED
  BY <1>1, <1>2, ImapStutter DEF ImapInv, ImapTypes, ImapUids, ImapKept, ImapRunKept, ImapPhases, Safe

LEMMA ImapOpen ==
  ASSUME ImapInv, NEW f \in Folders, Imap!OpenFolder(f) PROVE ImapInv' /\ ImapFeedKept
<1>0. /\ ImapTypes /\ ImapUids /\ ImapKept /\ ImapRunKept /\ pc = "folders" /\ f \in run.folders
      /\ run.newMax[f] = stored[f] /\ stored[f] \in Nat /\ stored[f] <= mail.top[f] /\ mail.top[f] \in Nat
      /\ \A k \in run.folders : run.newMax[k] = stored[k]
      /\ run.todo \cap Excused = {}
  BY ImapFields DEF ImapInv, ImapPhases, Imap!OpenFolder, ImapUids, ImapTypes
<1> DEFINE rest == run.folders \ {f}
           start == stored[f] + 1
           upto == Imap!Highest(stored[f], Imap!In(f))
<1>1. /\ run' = [ run EXCEPT !.folders = rest, !.folder = f, !.start = start, !.upto = upto ]
      /\ pc' = "batch" /\ UNCHANGED << mail, archived, stored, skipped >>
  BY Zenon DEF Imap!OpenFolder
<1>2. Imap!In(f) \in SUBSET Messages /\ \A m \in Imap!In(f) : mail.uid[m] <= mail.top[f]
  BY <1>0 DEF Imap!In, ImapUids
<1>3. upto \in Nat /\ upto <= mail.top[f]
  BY <1>0, <1>2, ImapHighest
<1>4. rest \in SUBSET Folders /\ f \in Folders \cup {AnyFolder} /\ start \in Nat
  BY <1>0, ImapFields
<1> HIDE DEF rest, start, upto
<1>5. /\ run' \in ImapRun /\ run'.newMax = run.newMax /\ run'.todo = run.todo /\ run'.folder = f
      /\ run'.start = start /\ run'.upto = upto /\ run'.failed = run.failed /\ run'.folders = rest
  BY <1>0, <1>1, <1>3, <1>4, Zenon DEF ImapRun, ImapTypes
<1>6. Failed' <=> Failed
  BY <1>5, Zenon DEF Failed
<1>7. ImapTypes'
  BY <1>0, <1>1, <1>5 DEF ImapTypes
<1>8. ImapUids'
  BY <1>0, <1>1, <1>3, <1>5 DEF ImapUids, start, rest
<1>9. ImapRunKept' /\ ImapKept'
  BY <1>0, <1>1, <1>5, <1>6 DEF ImapRunKept, ImapKept, Safe
<1>10. ImapBatch'
  <2>1. \A m \in Messages : mail.uid[m] \in Nat
    BY <1>0, ImapFields
  <2> QED
    BY <1>0, <1>1, <1>5, <2>1 DEF ImapBatch, ImapKept, Safe, start
<1>11. ImapPhases'
  BY <1>0, <1>1, <1>5, <1>9, <1>10 DEF ImapPhases, rest
<1> QED
  BY <1>1, <1>7, <1>8, <1>9, <1>11, ImapStutter DEF ImapInv

\* The end of a window, between its start and the folder's last message.
LEMMA ImapWindowEnd ==
  ASSUME Imap!ImapAssumption, ImapTypes
  PROVE  /\ Imap!WindowEnd \in Nat /\ Imap!WindowEnd <= run.upto
         /\ run.start <= run.upto => run.start <= Imap!WindowEnd
<1>1. run.start \in Nat /\ run.upto \in Nat /\ PageSize \in Nat \ {0}
  BY ImapFields DEF Imap!ImapAssumption
<1> DEFINE e == run.start + PageSize - 1
<1>2. e \in Nat /\ run.start <= e
  BY <1>1
<1>3. Imap!WindowEnd = IF e < run.upto THEN e ELSE run.upto
  BY DEF Imap!WindowEnd
<1> HIDE DEF e
<1> QED
  BY <1>1, <1>2, <1>3

LEMMA ImapEnvelopes ==
  ASSUME Imap!ImapAssumption, ImapInv, Imap!Envelopes PROVE ImapInv' /\ ImapFeedKept
<1> DEFINE f == run.folder
           end == Imap!WindowEnd
           listed == Imap!Listed(end)
           todo == listed \ (Excused \cup archived)
           high == Imap!Highest(run.newMax[f], listed)
           max == [ run.newMax EXCEPT ![f] = high ]
<1>0. /\ ImapTypes /\ ImapUids /\ ImapKept /\ ImapRunKept /\ ImapBatch /\ pc = "batch" /\ f \in Folders
      /\ \A k \in run.folders : run.newMax[k] = stored[k]
      /\ run.start <= run.upto /\ run.upto <= mail.top[f] /\ run.start <= mail.top[f] + 1
  BY DEF ImapInv, ImapPhases, Imap!Envelopes, ImapUids
<1>n. /\ run.newMax \in [Folders -> Nat] /\ run.folders \subseteq Folders /\ run.start \in Nat
      /\ run.upto \in Nat /\ mail.top \in [Folders -> Nat] /\ stored \in [Folders -> Nat]
      /\ \A m \in Messages : mail.uid[m] \in Nat
  BY <1>0, ImapFields DEF ImapTypes
<1>1. /\ run' = [ run EXCEPT !.newMax = max, !.todo = todo ]
      /\ pc' = "fetch" /\ UNCHANGED << mail, archived, stored, skipped >>
  BY Zenon DEF Imap!Envelopes
<1>d. listed = { m \in Imap!In(f) : run.start <= mail.uid[m] /\ mail.uid[m] <= end }
  BY DEF Imap!Listed
<1>2. end \in Nat /\ end <= run.upto /\ run.start <= end /\ run.newMax[f] \in Nat /\ run.newMax[f] <= end
  BY <1>0, <1>n, ImapWindowEnd DEF ImapBatch
<1>3. listed \in SUBSET Messages /\ todo \in SUBSET Messages /\ todo \cap Excused = {}
  BY <1>d DEF Imap!In
<1>4. high \in Nat /\ high <= end
  <2>1. \A m \in listed : mail.uid[m] <= end
    BY <1>d
  <2> HIDE DEF listed, end
  <2> QED
    BY <1>0, <1>2, <1>3, <2>1, ImapHighest
<1>5. max \in [Folders -> Nat] /\ max[f] = high /\ \A k \in Folders : k # f => max[k] = run.newMax[k]
  BY <1>0, <1>n, <1>4
<1>l. \A m \in Messages : mail.loc[m] = f /\ run.start <= mail.uid[m] /\ mail.uid[m] <= end =>
          m \in archived \cup Excused \cup todo
  BY <1>d DEF Imap!In
<1>end. end = Imap!WindowEnd
  OBVIOUS
<1>fol. f = run.folder
  OBVIOUS
<1> HIDE DEF f, end, listed, todo, high, max
<1>6. /\ run' \in ImapRun /\ run'.newMax = max /\ run'.todo = todo /\ run'.folder = run.folder
      /\ run'.start = run.start /\ run'.upto = run.upto /\ run'.failed = run.failed
      /\ run'.folders = run.folders
  BY <1>0, <1>1, <1>3, <1>5, Zenon DEF ImapRun, ImapTypes
<1>7. (Failed' <=> Failed) /\ Imap!WindowEnd' = end
  <2>1. Failed' <=> Failed
    BY <1>6, Zenon DEF Failed
  <2>2. Imap!WindowEnd' = end
    BY <1>6, <1>end DEF Imap!WindowEnd
  <2> QED
    BY <2>1, <2>2
<1>8. ImapTypes'
  BY <1>0, <1>1, <1>6 DEF ImapTypes
<1>9. ImapUids'
  BY <1>0, <1>n, <1>1, <1>2, <1>4, <1>5, <1>6, <1>fol DEF ImapUids
<1>10. ImapRunKept' /\ ImapKept'
  BY <1>0, <1>1, <1>5, <1>6, <1>7, <1>fol DEF ImapRunKept, ImapKept, Safe
<1>11. ImapWindow'
  BY <1>0, <1>n, <1>1, <1>l, <1>4, <1>5, <1>6, <1>7, <1>fol DEF ImapWindow, ImapBatch, Safe
<1>12. \A k \in run'.folders : run'.newMax[k] = stored'[k]
  BY <1>0, <1>n, <1>1, <1>5, <1>6, <1>fol DEF ImapUids
<1> QED
  BY <1>0, <1>1, <1>3, <1>6, <1>8, <1>9, <1>10, <1>11, <1>12, ImapStutter DEF ImapInv, ImapPhases

LEMMA ImapWindowDone ==
  ASSUME Imap!ImapAssumption, ImapInv, Imap!WindowDone PROVE ImapInv' /\ ImapFeedKept
<1> DEFINE next == Imap!WindowEnd + 1
<1>0. /\ ImapTypes /\ ImapUids /\ ImapKept /\ ImapRunKept /\ ImapWindow /\ pc = "fetch"
      /\ run.folder \in Folders /\ \A k \in run.folders : run.newMax[k] = stored[k]
      /\ run.upto <= mail.top[run.folder] /\ run.todo = {}
  BY DEF ImapInv, ImapPhases, Imap!WindowDone, ImapUids
<1>n. /\ run.newMax \in [Folders -> Nat] /\ run.upto \in Nat /\ mail.top \in [Folders -> Nat]
      /\ \A m \in Messages : mail.uid[m] \in Nat
  BY <1>0, ImapFields
<1>1. /\ run' = [ run EXCEPT !.start = next ]
      /\ pc' = "batch" /\ UNCHANGED << mail, archived, stored, skipped >>
  BY Zenon DEF Imap!WindowDone
<1>2. Imap!WindowEnd \in Nat /\ Imap!WindowEnd <= run.upto /\ next \in Nat
  BY <1>0, ImapWindowEnd
<1>3. next = Imap!WindowEnd + 1
  OBVIOUS
<1> HIDE DEF next
<1>4. /\ run' \in ImapRun /\ run'.newMax = run.newMax /\ run'.todo = run.todo /\ run'.folder = run.folder
      /\ run'.start = next /\ run'.upto = run.upto /\ run'.failed = run.failed
      /\ run'.folders = run.folders
  BY <1>0, <1>1, <1>2, Zenon DEF ImapRun, ImapTypes
<1>5. Failed' <=> Failed
  BY <1>4, Zenon DEF Failed
<1>6. ImapTypes'
  BY <1>0, <1>1, <1>4 DEF ImapTypes
<1>7. ImapUids'
  BY <1>0, <1>n, <1>1, <1>2, <1>3, <1>4 DEF ImapUids
<1>8. ImapKept' /\ ImapBatch'
  BY <1>0, <1>n, <1>1, <1>2, <1>3, <1>4, <1>5 DEF ImapKept, ImapWindow, ImapBatch, Safe
<1>9. ImapRunKept'
  BY <1>0, <1>n, <1>1, <1>2, <1>3, <1>4, <1>5 DEF ImapRunKept, ImapWindow, Safe
<1> QED
  BY <1>0, <1>1, <1>4, <1>6, <1>7, <1>8, <1>9, ImapStutter DEF ImapInv, ImapPhases

\* A folder that does not open keeps its UID.
LEMMA ImapFolderShut ==
  ASSUME ImapInv, NEW f \in Folders, Imap!FolderShut(f) PROVE ImapInv' /\ ImapFeedKept
<1>0. ImapTypes /\ ImapUids /\ ImapKept /\ ImapPhases
  BY DEF ImapInv
<1>1. /\ pc = "folders" /\ pc' = pc /\ UNCHANGED << mail, archived, stored, skipped >>
  BY Zenon DEF Imap!FolderShut
<1> DEFINE rest == run.folders \ {f}
<1>3. run' = [ run EXCEPT !.folders = rest ] /\ rest \in SUBSET Folders /\ rest \subseteq run.folders
  BY <1>0, ImapFields DEF Imap!FolderShut
<1> HIDE DEF rest
<1>4. /\ run' \in ImapRun /\ run'.newMax = run.newMax /\ run'.todo = run.todo
      /\ run'.failed = run.failed /\ run'.folders = rest
  BY <1>0, <1>3, Zenon DEF ImapRun, ImapTypes
<1>5. Failed' <=> Failed
  BY <1>4, Zenon DEF Failed
<1> QED
  BY <1>0, <1>1, <1>3, <1>4, <1>5, ImapStutter
     DEF ImapInv, ImapTypes, ImapUids, ImapKept, ImapRunKept, ImapPhases, Safe

\* What a folder that fails leaves behind is skipped.
LEMMA ImapSkips ==
  ASSUME NEW S \in SUBSET Messages, skipped' = skipped \cup S, UNCHANGED << mail, archived, stored >>
  PROVE  ImapFeedKept
<1>1. ImapFeed!Skip(S)
  BY DEF ImapFeed!Skip, Imap!There, Imap!Passed
<1> QED
  BY <1>1 DEF ImapFeedKept, ImapFeed!Next

LEMMA ImapEnvelopesFail ==
  ASSUME Imap!ImapAssumption, ImapInv, NEW upto \in Imap!Uids, Imap!EnvelopesFail(upto)
  PROVE  ImapInv' /\ ImapFeedKept
<1> DEFINE f == run.folder
           listed == Imap!Listed(upto)
           left == listed \ (Excused \cup archived)
           high == Imap!Highest(run.newMax[f], listed)
           max == [ run.newMax EXCEPT ![f] = high ]
<1>0. /\ ImapTypes /\ ImapUids /\ ImapKept /\ ImapRunKept /\ ImapBatch /\ pc = "batch" /\ f \in Folders
      /\ f \notin run.folders
      /\ \A k \in run.folders : run.newMax[k] = stored[k]
      /\ run.start <= run.upto /\ run.upto <= mail.top[f]
      /\ run.start <= upto /\ upto <= Imap!WindowEnd /\ upto \in Nat
      /\ run.todo \cap Excused = {}
  BY DEF ImapInv, ImapPhases, Imap!EnvelopesFail, ImapUids, Imap!Uids
<1>n. /\ run.newMax \in [Folders -> Nat] /\ run.folders \subseteq Folders /\ run.start \in Nat
      /\ run.upto \in Nat /\ mail.top \in [Folders -> Nat] /\ stored \in [Folders -> Nat]
      /\ \A m \in Messages : mail.uid[m] \in Nat
  BY <1>0, ImapFields DEF ImapTypes
<1>1. /\ run' = [ run EXCEPT !.newMax = max ] /\ skipped' = skipped \cup left
      /\ pc' = "folders" /\ UNCHANGED << mail, archived, stored >>
  BY Zenon DEF Imap!EnvelopesFail
<1>d. listed = { m \in Imap!In(f) : run.start <= mail.uid[m] /\ mail.uid[m] <= upto }
  BY DEF Imap!Listed
<1>2. /\ upto <= mail.top[f] /\ mail.top[f] \in Nat
      /\ run.newMax[f] \in Nat /\ run.newMax[f] < run.start /\ run.newMax[f] <= upto
  BY <1>0, <1>n, ImapWindowEnd DEF ImapBatch
<1>3. listed \in SUBSET Messages /\ left \in SUBSET Messages
  BY <1>d DEF Imap!In
<1>4. high \in Nat /\ high <= upto
  <2>1. \A m \in listed : mail.uid[m] <= upto
    BY <1>d
  <2> HIDE DEF listed
  <2> QED
    BY <1>0, <1>2, <1>3, <2>1, ImapHighest
<1>5. max \in [Folders -> Nat] /\ max[f] = high /\ \A k \in Folders : k # f => max[k] = run.newMax[k]
  BY <1>0, <1>n, <1>4
<1>l. \A m \in Messages : mail.loc[m] = f /\ run.start <= mail.uid[m] /\ mail.uid[m] <= upto =>
          m \in archived \cup Excused \cup left
  BY <1>d DEF Imap!In
<1>fol. f = run.folder
  OBVIOUS
<1> HIDE DEF f, listed, left, high, max
<1>6. /\ run' \in ImapRun /\ run'.newMax = max /\ run'.todo = run.todo /\ run'.failed = run.failed
      /\ run'.folders = run.folders
  BY <1>0, <1>1, <1>5, Zenon DEF ImapRun, ImapTypes
<1>7. Failed' <=> Failed
  BY <1>6, Zenon DEF Failed
<1>8. ImapTypes'
  BY <1>0, <1>1, <1>6 DEF ImapTypes
<1>9. ImapUids'
  BY <1>0, <1>n, <1>1, <1>2, <1>4, <1>5, <1>6 DEF ImapUids
<1>10. ImapKept'
  BY <1>0, <1>1 DEF ImapKept, Safe
<1>11. ImapRunKept'
  <2> SUFFICES ASSUME ~ Failed, NEW m \in Messages, mail.loc[m] \in Folders, mail.uid[m] <= max[mail.loc[m]]
               PROVE  m \in Safe'
    BY <1>1, <1>6, <1>7 DEF ImapRunKept
  <2>1. CASE mail.loc[m] = f
    <3>1. mail.uid[m] <= upto
      BY <1>n, <1>0, <1>4, <1>5, <2>1
    <3>2. CASE mail.uid[m] < run.start
      BY <1>0, <1>1, <1>fol, <2>1, <3>2 DEF ImapBatch, Safe
    <3>3. CASE run.start <= mail.uid[m]
      BY <1>1, <1>l, <2>1, <3>1, <3>3 DEF Safe
    <3> QED
      BY <1>n, <3>2, <3>3
  <2>2. CASE mail.loc[m] # f
    BY <1>0, <1>1, <1>5, <2>2 DEF ImapRunKept, Safe
  <2> QED
    BY <2>1, <2>2
<1>12. \A k \in run'.folders : run'.newMax[k] = stored'[k]
  BY <1>0, <1>n, <1>1, <1>5, <1>6
<1>13. ImapInv'
  BY <1>0, <1>1, <1>6, <1>8, <1>9, <1>10, <1>11, <1>12 DEF ImapInv, ImapPhases
<1> QED
  BY <1>1, <1>3, <1>13, ImapSkips

LEMMA ImapFetchFails ==
  ASSUME ImapInv, Imap!FetchFails PROVE ImapInv' /\ ImapFeedKept
<1>0. /\ ImapTypes /\ ImapUids /\ ImapKept /\ ImapRunKept /\ ImapWindow /\ pc = "fetch"
      /\ \A k \in run.folders : run.newMax[k] = stored[k]
      /\ run.newMax[run.folder] <= Imap!WindowEnd /\ run.folder \in Folders
  BY DEF ImapInv, ImapPhases, Imap!FetchFails, ImapWindow, ImapUids
<1>1. /\ run' = [ run EXCEPT !.todo = {} ] /\ skipped' = skipped \cup run.todo
      /\ pc' = "folders" /\ UNCHANGED << mail, archived, stored >> /\ run.todo \in SUBSET Messages
  BY <1>0, ImapFields DEF Imap!FetchFails
<1>2. /\ run' \in ImapRun /\ run'.newMax = run.newMax /\ run'.todo = {}
      /\ run'.failed = run.failed /\ run'.folders = run.folders
  <2>1. {} \in SUBSET Messages
    OBVIOUS
  <2> QED
    BY <1>0, <1>1, <2>1, Zenon DEF ImapRun, ImapTypes
<1>3. Failed' <=> Failed
  BY <1>2, Zenon DEF Failed
<1>4. ImapTypes' /\ ImapUids' /\ ImapKept'
  BY <1>0, <1>1, <1>2 DEF ImapTypes, ImapUids, ImapKept, Safe
<1>5. ImapRunKept'
  <2> SUFFICES ASSUME ~ Failed, NEW m \in Messages, mail.loc[m] \in Folders,
                      mail.uid[m] <= run.newMax[mail.loc[m]]
               PROVE  m \in Safe'
    BY <1>1, <1>2, <1>3 DEF ImapRunKept
  <2>1. CASE mail.loc[m] = run.folder
    <3>1. mail.uid[m] <= Imap!WindowEnd
      <4>1. mail.uid[m] \in Nat /\ run.newMax[run.folder] \in Nat
        BY <1>0, ImapFields
      <4>2. Imap!WindowEnd \in Nat
        BY <1>0, ImapWindowEnd, ConnectorAssumption
      <4> QED
        BY <1>0, <2>1, <4>1, <4>2
    <3> QED
      BY <1>0, <1>1, <2>1, <3>1 DEF ImapWindow, Safe
  <2>2. CASE mail.loc[m] # run.folder
    BY <1>0, <1>1, <2>2 DEF ImapRunKept, Safe
  <2> QED
    BY <2>1, <2>2
<1>6. ImapInv'
  BY <1>0, <1>1, <1>2, <1>4, <1>5 DEF ImapInv, ImapPhases
<1> QED
  BY <1>1, <1>6, ImapSkips

\* A message has been looked at.
ImapLooked(m) ==
    /\ pc = "fetch" /\ m \in run.todo
    /\ run' \in ImapRun
    /\ run'.newMax = run.newMax /\ run'.folders = run.folders /\ run'.folder = run.folder
    /\ run'.start = run.start /\ run'.upto = run.upto /\ run'.todo = run.todo \ {m}

LEMMA ImapHandle ==
  ASSUME ImapTypes, NEW m, NEW failed \in BOOLEAN, Imap!Handle(m, failed)
  PROVE  ImapLooked(m) /\ run'.failed = failed
<1> DEFINE S == run.todo \ {m}
<1>1. pc = "fetch" /\ m \in run.todo /\ run' = [ run EXCEPT !.todo = S, !.failed = failed ]
  BY Zenon DEF Imap!Handle
<1>2. run \in ImapRun /\ S \in SUBSET Messages
  BY ImapFields DEF ImapTypes
<1>3. /\ run' \in ImapRun /\ run'.newMax = run.newMax /\ run'.folders = run.folders
      /\ run'.folder = run.folder /\ run'.start = run.start /\ run'.upto = run.upto
      /\ run'.todo = S /\ run'.failed = failed
  BY <1>1, <1>2, Zenon DEF ImapRun
<1> QED
  BY <1>1, <1>3, Zenon DEF ImapLooked

LEMMA ImapMessage ==
  ASSUME Imap!ImapAssumption, ImapInv, NEW m \in Messages, Imap!MessageStep(m)
  PROVE  ImapInv' /\ ImapFeedKept
<1>0. ImapTypes /\ ImapUids /\ ImapKept /\ ImapPhases /\ run.failed \in BOOLEAN
  BY ImapFields DEF ImapInv
<1>1. CASE /\ ImapLooked(m) /\ mail' = mail /\ stored' = stored /\ pc' = pc /\ skipped' = skipped
           /\ \/ archived' = archived
              \/ (Imap!Fetchable(m) /\ archived' = archived \cup {m})
           /\ \/ Failed'
              \/ /\ Failed' <=> Failed
                 /\ (m \in Imap!In(run.folder) /\ mail.uid[m] <= Imap!WindowEnd) => m \in archived'
  <2>0. /\ pc = "fetch" /\ ImapWindow /\ ImapRunKept /\ archived \subseteq archived'
        /\ \A k \in run.folders : run.newMax[k] = stored[k]
    BY <1>0, <1>1 DEF ImapPhases, ImapLooked
  <2>1. ImapTypes'
    BY <1>0, <1>1 DEF ImapTypes, ImapLooked
  <2>2. ImapUids' /\ ImapKept' /\ ImapRunKept'
    BY <1>0, <1>1, <2>0 DEF ImapUids, ImapKept, ImapRunKept, ImapLooked, Safe
  <2>3. Imap!WindowEnd' = Imap!WindowEnd
    BY <1>1 DEF Imap!WindowEnd, ImapLooked
  <2>4. ImapWindow'
    BY <1>1, <2>0, <2>3 DEF ImapWindow, ImapLooked, Safe, Imap!In
  <2>5. ImapPhases'
    BY <1>0, <1>1, <2>0, <2>2, <2>4 DEF ImapPhases, ImapLooked
  <2>6. ImapFeedKept
    <3>1. CASE archived' = archived
      BY <1>1, <3>1, ImapStutter
    <3>2. CASE Imap!Fetchable(m) /\ archived' = archived \cup {m}
      <4>1. m \in Imap!There /\ m \notin archived
        BY <1>0, <2>0, <3>2 DEF Imap!Fetchable, Imap!In, Imap!There, Imap!ImapAssumption, ImapUids
      <4>2. m \notin Excused
        BY <1>0, <1>1 DEF ImapPhases, ImapLooked
      <4>3. ImapFeed!Archive(m)
        BY <1>1, <3>2, <4>1, <4>2 DEF ImapFeed!Archive, Imap!There, Imap!Passed
      <4> QED
        BY <4>3 DEF ImapFeedKept, ImapFeed!Next
    <3> QED
      BY <1>1, <3>1, <3>2
  <2> QED
    BY <2>1, <2>2, <2>5, <2>6 DEF ImapInv
<1>2. CASE Imap!Skip(m) \/ Imap!Archive(m)
  <2>1. Imap!Handle(m, run.failed)
    BY <1>2 DEF Imap!Skip, Imap!Archive
  <2>2. ImapLooked(m) /\ run'.failed = run.failed
    BY <1>0, <2>1, ImapHandle
  <2>3. Failed' <=> Failed
    BY <2>2, Zenon DEF Failed
  <2>4. /\ mail' = mail /\ stored' = stored /\ pc' = pc /\ skipped' = skipped
        /\ \/ archived' = archived
           \/ (Imap!Fetchable(m) /\ archived' = archived \cup {m})
        /\ (m \in Imap!In(run.folder) /\ mail.uid[m] <= Imap!WindowEnd) => m \in archived'
    BY <1>2 DEF Imap!Skip, Imap!Archive, Imap!Fetchable
  <2> QED
    BY <1>1, <2>2, <2>3, <2>4
<1>3. CASE Imap!ArchiveFails(m)
  <2>1. Imap!Handle(m, TRUE) /\ UNCHANGED << mail, archived, stored, pc, skipped >>
    BY <1>3 DEF Imap!ArchiveFails
  <2>2. ImapLooked(m) /\ run'.failed = TRUE
    BY <1>0, <2>1, ImapHandle
  <2>3. Failed'
    BY <2>2, Zenon DEF Failed
  <2> QED
    BY <1>1, <2>1, <2>2, <2>3
<1> QED
  BY <1>2, <1>3 DEF Imap!MessageStep

LEMMA ImapFinish == ASSUME Imap!ImapAssumption, ImapInv, Imap!Finish PROVE ImapInv' /\ ImapFeedKept
<1>0. /\ ImapTypes /\ ImapUids /\ ImapKept /\ ImapRunKept /\ pc = "finish"
      /\ mail.top \in [Folders -> Nat] /\ run.newMax \in [Folders -> Nat]
  BY ImapFields DEF ImapInv, ImapPhases, Imap!Finish
<1>1. UNCHANGED << mail, archived, skipped >> /\ pc' = "idle" /\ run' = Imap!NoRun
  BY DEF Imap!Finish
<1>2. stored' = stored \/ (~ Failed /\ stored' = run.newMax)
  <2>1. run.failed \in BOOLEAN
    BY <1>0, ImapFields
  <2> QED
    BY <2>1, Zenon DEF Imap!Finish, Failed
<1>3. ImapKept'
  BY <1>0, <1>1, <1>2 DEF ImapKept, ImapRunKept, Safe
<1>4. ImapTypes'
  BY <1>0, <1>1, <1>2, ImapNoRun DEF ImapTypes
<1>5. ImapUids'
  BY <1>0, <1>1, <1>2, ImapNoRun DEF ImapUids
<1>6. /\ Imap!There = { m \in Messages : mail.loc[m] \in Folders } /\ Imap!There' = Imap!There
      /\ Imap!Passed' = { m \in Messages : mail.loc[m] \in Folders /\ mail.uid[m] <= stored'[mail.loc[m]] }
  <2>1. Imap!There' = Imap!There
    BY <1>1 DEF Imap!There
  <2>2. Imap!Passed' = { m \in Messages : mail'.loc[m] \in Folders /\ mail'.uid[m] <= stored'[mail'.loc[m]] }
    BY <1>0, <1>1, ImapFields DEF Imap!ImapAssumption, Imap!There, Imap!Passed
  <2> QED
    BY <1>0, <1>1, <2>1, <2>2, ImapView
<1>7. Imap!Passed' \subseteq Imap!There \cap (archived \cup Excused \cup skipped) /\ Imap!Passed' \in SUBSET Messages
  BY <1>1, <1>3, <1>6 DEF ImapKept, Safe
<1>8. ImapFeed!Advance(Imap!Passed')
  BY <1>1, <1>6, <1>7 DEF ImapFeed!Advance
<1> QED
  BY <1>1, <1>3, <1>4, <1>5, <1>7, <1>8, ImapNoRun
     DEF ImapInv, ImapPhases, ImapFeedKept, ImapFeed!Next

\* A message gets the folder's next UID, which nothing has passed yet.
LEMMA ImapDeliver ==
  ASSUME Imap!ImapAssumption, ImapInv, NEW m \in Messages, NEW f \in Folders, Imap!Deliver(m, f)
  PROVE  ImapInv' /\ ImapFeedKept
<1> DEFINE next == mail.top[f] + 1
           loc == [ mail.loc EXCEPT ![m] = f ]
           uid == [ mail.uid EXCEPT ![m] = next ]
           top == [ mail.top EXCEPT ![f] = next ]
<1>0. ImapTypes /\ ImapUids /\ ImapKept /\ ImapPhases /\ mail \in ImapMail /\ Nowhere \notin Folders
  BY DEF ImapInv, ImapTypes, Imap!ImapAssumption
<1>n. /\ run.newMax \in [Folders -> Nat] /\ run.upto \in Nat /\ run.start \in Nat
      /\ mail.top \in [Folders -> Nat] /\ mail.uid \in [Messages -> Nat] /\ stored \in [Folders -> Nat]
      /\ mail.loc \in [Messages -> Folders \cup {Nowhere}]
  BY <1>0, ImapFields DEF ImapTypes
<1>1. /\ mail' = [ mail EXCEPT !.top = top, !.loc = loc, !.uid = uid ]
      /\ UNCHANGED << archived, stored, pc, run, skipped >>
  BY Zenon DEF Imap!Deliver
<1>2. /\ loc \in [Messages -> Folders \cup {Nowhere}] /\ uid \in [Messages -> Nat]
      /\ top \in [Folders -> Nat]
  BY <1>n
<1>3. /\ loc[m] = f /\ uid[m] = next /\ top[f] = next /\ next \in Nat /\ mail.top[f] < next
      /\ \A k \in Messages : k # m => loc[k] = mail.loc[k] /\ uid[k] = mail.uid[k]
      /\ \A g \in Folders : mail.top[g] <= top[g]
      /\ next = mail.top[f] + 1
  BY <1>n
<1> HIDE DEF next, loc, uid, top
<1>4. mail' \in ImapMail /\ mail'.loc = loc /\ mail'.uid = uid /\ mail'.top = top
  BY <1>0, <1>1, <1>2, Zenon DEF ImapMail
<1>5. /\ (Failed' <=> Failed) /\ Imap!WindowEnd' = Imap!WindowEnd
      /\ Imap!WindowEnd <= run.upto /\ Imap!WindowEnd \in Nat
  <2>1. Failed' <=> Failed
    BY <1>1, Zenon DEF Failed
  <2>2. Imap!WindowEnd' = Imap!WindowEnd
    BY <1>1 DEF Imap!WindowEnd
  <2> QED
    BY <1>0, <2>1, <2>2, ImapWindowEnd
<1>6. ImapTypes'
  BY <1>0, <1>1, <1>4 DEF ImapTypes
<1>7. ImapUids'
  <2>1. \A g \in Folders : stored[g] <= top[g] /\ run.newMax[g] <= top[g]
    BY <1>0, <1>n, <1>2, <1>3 DEF ImapUids
  <2>2. \A k \in Messages : loc[k] \in Folders => uid[k] <= top[loc[k]]
    BY <1>0, <1>n, <1>2, <1>3 DEF ImapUids
  <2>3. pc \in { "batch", "fetch" } =>
          /\ run.folder \in Folders \ run.folders
          /\ run.start <= top[run.folder] + 1 /\ run.upto <= top[run.folder]
    BY <1>0, <1>n, <1>2, <1>3 DEF ImapUids
  <2> QED
    BY <1>1, <1>4, <2>1, <2>2, <2>3 DEF ImapUids
<1>8. ~ (next <= stored[f]) /\ ~ (next <= run.newMax[f])
  BY <1>0, <1>n, <1>3 DEF ImapUids
<1>u. archived' = archived /\ stored' = stored /\ pc' = pc /\ run' = run /\ skipped' = skipped
  BY <1>1
<1>k. ImapKept'
  BY <1>0, <1>u, <1>3, <1>4, <1>8 DEF ImapKept, Safe
<1>9. ImapRunKept => ImapRunKept'
  BY <1>u, <1>3, <1>4, <1>5, <1>8 DEF ImapRunKept, Safe
<1>10. pc = "batch" /\ ImapBatch => ImapBatch'
  <2>1. ASSUME pc = "batch", f = run.folder PROVE ~ (next < run.start)
    BY <1>0, <1>n, <1>3, <2>1 DEF ImapUids
  <2> QED
    BY <1>1, <1>3, <1>4, <1>5, <2>1 DEF ImapBatch, Safe
<1>11. pc = "fetch" /\ ImapWindow => ImapWindow'
  <2>1. ASSUME pc = "fetch", f = run.folder PROVE ~ (next <= Imap!WindowEnd)
    BY <1>0, <1>n, <1>3, <1>5, <2>1 DEF ImapUids
  <2> QED
    BY <1>1, <1>3, <1>4, <1>5, <2>1 DEF ImapWindow, Safe
<1>12. ImapInv'
  BY <1>0, <1>1, <1>6, <1>7, <1>k, <1>9, <1>10, <1>11 DEF ImapInv, ImapPhases
<1>13. /\ Imap!There = { k \in Messages : mail.loc[k] \in Folders }
       /\ Imap!Passed = { k \in Messages : mail.loc[k] \in Folders /\ mail.uid[k] <= stored[mail.loc[k]] }
       /\ Imap!There' = { k \in Messages : loc[k] \in Folders }
       /\ Imap!Passed' = { k \in Messages : loc[k] \in Folders /\ uid[k] <= stored[loc[k]] }
  BY <1>0, <1>1, <1>2, <1>4, ImapView DEF Imap!There, Imap!Passed
<1>14. Imap!There' = Imap!There \cup {m} /\ Imap!Passed' = Imap!Passed \ {m}
  BY <1>3, <1>8, <1>13
<1>15. CASE m \notin Imap!There
  <2>1. ImapFeed!Arrive(m)
    BY <1>1, <1>13, <1>14, <1>15 DEF ImapFeed!Arrive
  <2> QED
    BY <1>12, <2>1 DEF ImapFeedKept, ImapFeed!Next
<1>16. CASE m \in Imap!There
  <2>1. Imap!Passed' \subseteq Imap!There \cap (archived \cup Excused \cup skipped) /\ Imap!Passed' \in SUBSET Messages
    BY <1>0, <1>13, <1>14 DEF ImapKept, Safe
  <2>2. ImapFeed!Advance(Imap!Passed')
    BY <1>1, <1>14, <1>16, <2>1 DEF ImapFeed!Advance
  <2> QED
    BY <1>12, <2>1, <2>2 DEF ImapFeedKept, ImapFeed!Next
<1> QED
  BY <1>15, <1>16

LEMMA ImapVanish ==
  ASSUME Imap!ImapAssumption, ImapInv, NEW m \in Messages, Imap!Vanish(m) PROVE ImapInv' /\ ImapFeedKept
<1> DEFINE loc == [ mail.loc EXCEPT ![m] = Nowhere ]
<1>0. ImapTypes /\ ImapUids /\ ImapKept /\ ImapPhases /\ mail \in ImapMail /\ Nowhere \notin Folders
  BY DEF ImapInv, ImapTypes, Imap!ImapAssumption
<1>1. /\ mail' = [ mail EXCEPT !.loc = loc ] /\ UNCHANGED << archived, stored, pc, run, skipped >>
      /\ mail.loc[m] # Nowhere
  BY Zenon DEF Imap!Vanish
<1>2. loc \in [Messages -> Folders \cup {Nowhere}]
  BY <1>0, ImapFields
<1>3. loc[m] = Nowhere /\ \A k \in Messages : k # m => loc[k] = mail.loc[k]
  BY <1>0, ImapFields
<1> HIDE DEF loc
<1>4. mail' \in ImapMail /\ mail'.loc = loc /\ mail'.uid = mail.uid /\ mail'.top = mail.top
  BY <1>0, <1>1, <1>2, Zenon DEF ImapMail
<1>5. (Failed' <=> Failed) /\ Imap!WindowEnd' = Imap!WindowEnd
  <2>1. Failed' <=> Failed
    BY <1>1, Zenon DEF Failed
  <2> QED
    BY <1>1, <2>1 DEF Imap!WindowEnd
<1>6. ImapTypes' /\ ImapUids'
  BY <1>0, <1>1, <1>3, <1>4 DEF ImapTypes, ImapUids
<1>7. ImapKept' /\ (ImapRunKept => ImapRunKept')
  BY <1>0, <1>1, <1>3, <1>4, <1>5 DEF ImapKept, ImapRunKept, Safe
<1>f. pc \in { "batch", "fetch" } => run.folder # Nowhere
  BY <1>0 DEF ImapUids
<1>8. pc = "batch" /\ ImapBatch => ImapBatch'
  BY <1>1, <1>3, <1>4, <1>5, <1>f DEF ImapBatch, Safe
<1>w. pc = "fetch" /\ ImapWindow => ImapWindow'
  BY <1>1, <1>3, <1>4, <1>5, <1>f DEF ImapWindow, Safe
<1>9. ImapInv'
  BY <1>0, <1>1, <1>6, <1>7, <1>8, <1>w DEF ImapInv, ImapPhases
<1>10. m \in Imap!There /\ Imap!There' = Imap!There \ {m} /\ Imap!Passed' = Imap!Passed \ {m}
  BY <1>1, <1>3, <1>4 DEF Imap!There, Imap!Passed
<1>11. ImapFeed!Vanish(m)
  BY <1>1, <1>10 DEF ImapFeed!Vanish
<1> QED
  BY <1>9, <1>11 DEF ImapFeedKept, ImapFeed!Next

LEMMA ImapFails ==
  ASSUME Imap!ImapAssumption, ImapInv, Imap!FolderFails PROVE ImapInv' /\ ImapFeedKept
  BY ImapFolderShut, ImapEnvelopesFail, ImapFetchFails, Zenon DEF Imap!FolderFails

LEMMA ImapNext ==
  Imap!ImapAssumption /\ ImapInv /\ Imap!Next => ImapInv' /\ ImapFeedKept
<1> SUFFICES ASSUME Imap!ImapAssumption, ImapInv, Imap!Next
             PROVE  ImapInv' /\ ImapFeedKept
  OBVIOUS
<1>1. CASE Imap!ListFails \/ Imap!Crash
  <2>1. Imap!Abort
    BY <1>1, Zenon DEF Imap!ListFails, Imap!Crash
  <2> QED
    BY <2>1, ImapIdle DEF Imap!Abort
<1> QED
  BY <1>1, ImapStart, ImapWalk, ImapOpen, ImapEnvelopes, ImapWindowDone, ImapFails, ImapMessage,
     ImapFinish, ImapDeliver, ImapVanish, Zenon DEF Imap!Next, Imap!RunStep

-----------------------------------------------------------------------------
(* Uploads: the working copies of the imports.                               *)

Marked(imp) == imp.marked = TRUE
Old(copy) == copy.old = TRUE

\* The process of a running import is alive, and its copy is one no sweep takes:
\* young until it has its sentinel, and under the import's own name from then on.
ImportKept(imp, dead) ==
    /\ imp.pc \in { "load", "sentinel", "copy", "read" } => imp.pid \in Pids \ dead
    /\ imp.pc \in { "load", "sentinel" } => ~ Marked(imp)
    /\ imp.pc = "sentinel" => (imp.copy # {} /\ \A c \in imp.copy : c.owner = NoPid /\ ~ Old(c))
    /\ (imp.pc \in { "copy", "read" } /\ Marked(imp)) =>
          (imp.copy # {} /\ \A c \in imp.copy : c.owner = imp.pid)

UploadInv ==
    /\ imports \in [Imports -> Upload!Import] /\ host \in Upload!Host
    /\ \A i \in Imports : ImportKept(imports[i], host.dead)

LEMMA ImportFields ==
  ASSUME NEW imp \in Upload!Import
  PROVE  /\ imp.kind \in Upload!Kinds /\ imp.copy \subseteq Upload!Copies /\ imp.left \subseteq Entries
         /\ imp.offered \subseteq Entries /\ imp.pid \in Pids \cup {NoPid}
         /\ imp.marked \in BOOLEAN /\ imp.upload \in BOOLEAN
  BY Zenon DEF Upload!Import

LEMMA UploadInit == Upload!FileAssumption /\ Upload!Init => UploadInv
<1> SUFFICES ASSUME Upload!FileAssumption, Upload!Init PROVE UploadInv
  OBVIOUS
<1>1. PICK kind \in [Imports -> Upload!Kinds], uploaded \in [Imports -> BOOLEAN] :
        imports = [ i \in Imports |->
              [ kind |-> kind[i], uploaded |-> uploaded[i], upload |-> uploaded[i],
                job |-> "list", pc |-> "idle", pid |-> NoPid, copy |-> {}, marked |-> FALSE,
                left |-> {}, offered |-> {}, thrown |-> FALSE ] ]
  BY Zenon DEF Upload!Init
<1>2. ASSUME NEW i \in Imports PROVE imports[i] \in Upload!Import /\ imports[i].pc = "idle"
  <2>1. kind[i] \in Upload!Kinds /\ uploaded[i] \in BOOLEAN
    OBVIOUS
  <2>2. imports[i] = 
              [ kind |-> kind[i], uploaded |-> uploaded[i], upload |-> uploaded[i],
                job |-> "list", pc |-> "idle", pid |-> NoPid, copy |-> {}, marked |-> FALSE,
                left |-> {}, offered |-> {}, thrown |-> FALSE ]
    BY <1>1, Zenon
  <2>3. {} \subseteq Upload!Copies /\ {} \subseteq Entries /\ NoPid \in Pids \cup {NoPid}
    OBVIOUS
  <2>4. ASSUME NEW k \in Upload!Kinds, NEW u \in BOOLEAN
        PROVE  LET r == [ kind |-> k, uploaded |-> u, upload |-> u, job |-> "list", pc |-> "idle",
                          pid |-> NoPid, copy |-> {}, marked |-> FALSE, left |-> {}, offered |-> {},
                          thrown |-> FALSE ]
               IN  r \in Upload!Import /\ r.pc = "idle"
    BY <2>3, Zenon DEF Upload!Import
  <2> QED
    BY <2>1, <2>2, <2>4, Zenon
<1>3. imports \in [Imports -> Upload!Import]
  <2>1. \A i \in Imports : imports[i] \in Upload!Import
    BY <1>2
  <2> QED
    BY <1>1, <2>1, Zenon
<1>4. host \in Upload!Host
  BY DEF Upload!Init, Upload!Host
<1> QED
  BY <1>2, <1>3, <1>4 DEF UploadInv, ImportKept

\* One import goes on, and no process dies.
LEMMA UploadChanged ==
  ASSUME UploadInv, NEW i \in Imports, NEW imp \in Upload!Import, ImportKept(imp, host.dead),
         imports' = [ imports EXCEPT ![i] = imp ], host' \in Upload!Host, host'.dead = host.dead
  PROVE  UploadInv'
<1>1. imports' \in [Imports -> Upload!Import] /\ \A j \in Imports : imports'[j] = IF j = i THEN imp ELSE imports[j]
  BY DEF UploadInv
<1> QED
  BY <1>1 DEF UploadInv, ImportKept

\* It goes on under the same name, with its copy, to a later stage.
LEMMA UploadOn ==
  ASSUME UploadInv, NEW i \in Imports, NEW imp \in Upload!Import,
         imp.pid = imports[i].pid, imp.copy = imports[i].copy, imp.marked = imports[i].marked,
         imports[i].pc \in { "copy", "read" }, imp.pc \in { "copy", "read", "close" }
  PROVE  ImportKept(imp, host.dead)
<1>1. Marked(imp) <=> Marked(imports[i])
  BY Zenon DEF Marked
<1> QED
  BY <1>1 DEF UploadInv, ImportKept

LEMMA UploadBegin ==
  ASSUME UploadInv, NEW i \in Imports, NEW p \in Pids, Upload!Begin(i, p) PROVE UploadInv'
<1> DEFINE r == imports[i]
           q == [ r EXCEPT !.pc = "load", !.pid = p, !.marked = FALSE ]
           s == [ r EXCEPT !.job = "fetch" ]
<1>0. r \in Upload!Import /\ host \in Upload!Host
  BY DEF UploadInv
<1>1. /\ r.pc = "idle" /\ p \notin host.dead /\ UNCHANGED host
      /\ (imports' = [ imports EXCEPT ![i] = q ] \/ imports' = [ imports EXCEPT ![i] = s ])
  BY Zenon DEF Upload!Begin
<1>2. q \in Upload!Import /\ q.pc = "load" /\ q.pid = p /\ ~ Marked(q)
  BY <1>0, Zenon DEF Upload!Import, Marked
<1>3. s \in Upload!Import /\ s.pc = "idle"
  BY <1>0, <1>1, Zenon DEF Upload!Import
<1> HIDE DEF q, s, r
<1>4. ImportKept(q, host.dead) /\ ImportKept(s, host.dead)
  BY <1>1, <1>2, <1>3 DEF ImportKept
<1> QED
  BY <1>0, <1>1, <1>2, <1>3, <1>4, UploadChanged

\* A sweep takes no copy of an import that is running.
LEMMA NoneSwept ==
  ASSUME Upload!FileAssumption, NEW i, NEW dead, NEW imp \in Upload!Import, ImportKept(imp, host.dead),
         imp.pc = "sentinel" \/ (imp.pc \in { "copy", "read" } /\ Marked(imp))
  PROVE  imp.copy \ Upload!Swept(i) = imp.copy
<1>1. ASSUME NEW c \in imp.copy, Upload!Removable(c) PROVE FALSE
  <2>1. c.owner # NoPid => c.owner \in host.dead
    BY <1>1, Zenon DEF Upload!Removable
  <2>2. c.owner = NoPid => c.old
    BY <1>1, Zenon DEF Upload!Removable
  <2>3. c.owner = NoPid => Old(c)
    <3>1. c \in Upload!Copies
      BY <1>1, ImportFields
    <3>2. c.old \in BOOLEAN
      BY <3>1, Zenon DEF Upload!Copies
    <3> QED
      BY <2>2, <3>2, Zenon DEF Old
  <2> QED
    BY <2>1, <2>3 DEF ImportKept, Upload!FileAssumption
<1> QED
  BY <1>1 DEF Upload!Swept

LEMMA UploadLoad ==
  ASSUME Upload!FileAssumption, UploadInv, NEW i \in Imports, Upload!Load(i) PROVE UploadInv'
<1> DEFINE r == imports[i]
           new == { [ kind |-> r.kind, owner |-> NoPid, old |-> FALSE ] }
           gone == host.litter \ Upload!Swept(i)
<1>0. r \in Upload!Import /\ host \in Upload!Host /\ r.pc = "load" /\ ImportKept(r, host.dead)
  BY DEF UploadInv, Upload!Load
<1>1. /\ host' = [ host EXCEPT !.litter = gone ]
      /\ imports' = [ j \in Imports |->
          IF j # i THEN [ imports[j] EXCEPT !.copy = @ \ Upload!Swept(i) ]
          ELSE IF ~ Upload!Openable(r) THEN [ r EXCEPT !.pc = "close", !.thrown = TRUE ]
          ELSE IF ~ Upload!Copied(r) THEN [ r EXCEPT !.pc = "read", !.left = Entries ]
          ELSE [ r EXCEPT !.pc = IF r.kind = "pst" THEN "sentinel" ELSE "copy",
                            !.copy = { [ kind |-> r.kind, owner |-> NoPid, old |-> FALSE ] } ] ]
  BY Zenon DEF Upload!Load
<1>2. host' \in Upload!Host /\ host'.dead = host.dead
  <2>1. gone \subseteq Upload!Copies
    BY <1>0 DEF Upload!Host
  <2> HIDE DEF gone
  <2> QED
    BY <1>0, <1>1, <2>1 DEF Upload!Host
<1>3. ASSUME NEW j \in Imports, j # i
      PROVE  imports'[j] \in Upload!Import /\ ImportKept(imports'[j], host.dead)
  <2> DEFINE o == imports[j]
             copy == o.copy \ Upload!Swept(i)
  <2>0. o \in Upload!Import /\ ImportKept(o, host.dead)
    BY DEF UploadInv
  <2>1. copy \subseteq Upload!Copies
    BY <2>0, ImportFields
  <2>2. imports'[j] = [ o EXCEPT !.copy = copy ]
    BY <1>1, <1>3, Zenon
  <2>3. \/ copy = o.copy
        \/ ~ (o.pc = "sentinel" \/ (o.pc \in { "copy", "read" } /\ Marked(o)))
    BY <2>0, NoneSwept
  <2> HIDE DEF o, copy
  <2>4. /\ imports'[j] \in Upload!Import /\ imports'[j].pc = o.pc /\ imports'[j].pid = o.pid
        /\ imports'[j].copy = copy /\ imports'[j].marked = o.marked
    BY <2>0, <2>1, <2>2, Zenon DEF Upload!Import
  <2>5. Marked(imports'[j]) <=> Marked(o)
    BY <2>4, Zenon DEF Marked
  <2> QED
    BY <2>0, <2>3, <2>4, <2>5 DEF ImportKept
<1>4. imports'[i] \in Upload!Import /\ ImportKept(imports'[i], host.dead)
  <2>1. ~ Marked(r) /\ r.pid \in Pids \ host.dead
    BY <1>0 DEF ImportKept
  <2>2. new \subseteq Upload!Copies /\ new # {} /\ \A c \in new : c.owner = NoPid /\ ~ Old(c)
    <3> DEFINE n == [ kind |-> r.kind, owner |-> NoPid, old |-> FALSE ]
    <3>1. n \in Upload!Copies /\ n.owner = NoPid /\ n.old = FALSE
      BY <1>0, ImportFields, Zenon DEF Upload!Copies
    <3>2. new = {n}
      OBVIOUS
    <3> HIDE DEF n, new
    <3>3. ~ Old(n)
      BY <3>1, Zenon DEF Old
    <3> QED
      BY <3>1, <3>2, <3>3
  <2>3. \/ imports'[i] = [ r EXCEPT !.pc = "close", !.thrown = TRUE ]
        \/ imports'[i] = [ r EXCEPT !.pc = "read", !.left = Entries ]
        \/ imports'[i] = [ r EXCEPT !.pc = "sentinel", !.copy = new ]
        \/ imports'[i] = [ r EXCEPT !.pc = "copy", !.copy = new ]
    BY <1>1, Zenon
  <2> HIDE DEF r, new
  <2>4. /\ imports'[i] \in Upload!Import /\ imports'[i].pid = r.pid /\ imports'[i].marked = r.marked
        /\ imports'[i].pc \in { "close", "read", "sentinel", "copy" }
        /\ imports'[i].pc = "sentinel" => imports'[i].copy = new
    BY <1>0, <2>2, <2>3, Zenon DEF Upload!Import
  <2>5. ~ Marked(imports'[i])
    BY <2>1, <2>4, Zenon DEF Marked
  <2> QED
    BY <2>1, <2>2, <2>4, <2>5 DEF ImportKept
<1>5. \A j \in Imports : imports'[j] \in Upload!Import /\ ImportKept(imports'[j], host.dead)
  BY <1>3, <1>4
<1>6. imports' \in [Imports -> Upload!Import]
  BY <1>1, <1>5, Zenon
<1> QED
  BY <1>2, <1>5, <1>6 DEF UploadInv, ImportKept

LEMMA UploadSentinel ==
  ASSUME UploadInv, NEW i \in Imports, Upload!Sentinel(i) PROVE UploadInv'
<1> DEFINE r == imports[i]
           own == { [ c EXCEPT !.owner = r.pid ] : c \in r.copy }
           q == [ r EXCEPT !.pc = "copy", !.marked = TRUE, !.copy = own ]
           s == [ r EXCEPT !.pc = "copy" ]
<1>0. r \in Upload!Import /\ host \in Upload!Host /\ r.pc = "sentinel" /\ ImportKept(r, host.dead)
  BY DEF UploadInv, Upload!Sentinel
<1>1. /\ UNCHANGED host
      /\ (imports' = [ imports EXCEPT ![i] = q ] \/ imports' = [ imports EXCEPT ![i] = s ])
  BY Zenon DEF Upload!Sentinel
<1>2. own \subseteq Upload!Copies /\ own # {} /\ \A c \in own : c.owner = r.pid
  <2>1. \A c \in Upload!Copies : [ c EXCEPT !.owner = r.pid ] \in Upload!Copies
        /\ [ c EXCEPT !.owner = r.pid ].owner = r.pid
    BY <1>0, ImportFields, Zenon DEF Upload!Copies
  <2>2. r.copy \subseteq Upload!Copies /\ r.copy # {}
    BY <1>0, ImportFields DEF ImportKept
  <2> HIDE DEF r
  <2> QED
    BY <2>1, <2>2, Zenon
<1> HIDE DEF r, own
<1>3. q \in Upload!Import /\ q.pc = "copy" /\ q.pid = r.pid /\ q.copy = own
  BY <1>0, <1>2, Zenon DEF Upload!Import
<1>4. s \in Upload!Import /\ s.pc = "copy" /\ s.pid = r.pid /\ s.marked = r.marked
  BY <1>0, Zenon DEF Upload!Import
<1>5. ~ Marked(s)
  <2>1. ~ Marked(r)
    BY <1>0 DEF ImportKept
  <2> HIDE DEF s
  <2> QED
    BY <1>4, <2>1, Zenon DEF Marked
<1> HIDE DEF q, s
<1>6. ImportKept(q, host.dead) /\ ImportKept(s, host.dead)
  BY <1>0, <1>2, <1>3, <1>4, <1>5 DEF ImportKept
<1> QED
  BY <1>0, <1>1, <1>3, <1>4, <1>6, UploadChanged

LEMMA UploadFails ==
  ASSUME UploadInv, NEW i \in Imports, Upload!StreamFails(i) PROVE UploadInv'
<1> DEFINE r == imports[i]
           forgotten == r.kind = "pst" /\ r.pc = "copy"
           rest == IF forgotten THEN {} ELSE r.copy
           q == [ r EXCEPT !.pc = "close", !.thrown = TRUE, !.copy = rest ]
           litter == host.litter \cup r.copy
<1>0. r \in Upload!Import /\ host \in Upload!Host
  BY DEF UploadInv
<1>1. /\ imports' = [ imports EXCEPT ![i] = q ]
      /\ (host' = [ host EXCEPT !.litter = litter ] \/ host' = host)
  BY Zenon DEF Upload!StreamFails
<1>2. rest \subseteq Upload!Copies /\ litter \subseteq Upload!Copies
  BY <1>0, ImportFields DEF Upload!Host
<1> HIDE DEF r, rest, litter
<1>3. q \in Upload!Import /\ q.pc = "close"
  BY <1>0, <1>2, Zenon DEF Upload!Import
<1>4. host' \in Upload!Host /\ host'.dead = host.dead
  BY <1>0, <1>1, <1>2 DEF Upload!Host
<1> HIDE DEF q
<1>5. ImportKept(q, host.dead)
  BY <1>3 DEF ImportKept
<1> QED
  BY <1>1, <1>3, <1>4, <1>5, UploadChanged

\* Copying, listing and reading leave the copy where it is.
LEMMA UploadReads ==
  ASSUME UploadInv, NEW i \in Imports,
         \/ Upload!Copy(i) \/ Upload!Listed(i) \/ Upload!FolderCutShort(i) \/ Upload!ReadAll(i)
         \/ \E e \in Entries : Upload!Read(i, e)
  PROVE  UploadInv'
<1> DEFINE r == imports[i]
<1>0. r \in Upload!Import /\ host \in Upload!Host
  BY DEF UploadInv
<1>1. UNCHANGED host /\ r.pc \in { "copy", "read" }
  BY DEF Upload!Copy, Upload!Listed, Upload!FolderCutShort, Upload!ReadAll, Upload!Read
<1>2. ASSUME NEW q \in Upload!Import, imports' = [ imports EXCEPT ![i] = q ], q.pid = r.pid, q.copy = r.copy,
             q.marked = r.marked, q.pc \in { "copy", "read", "close" }
      PROVE  UploadInv'
  <2>1. ImportKept(q, host.dead)
    BY <1>1, <1>2, UploadOn
  <2> QED
    BY <1>0, <1>1, <1>2, <2>1, UploadChanged
<1>3. CASE Upload!Copy(i)
  <2> DEFINE q == [ r EXCEPT !.pc = "read", !.left = Entries ]
  <2>1. imports' = [ imports EXCEPT ![i] = q ]
    BY <1>3, Zenon DEF Upload!Copy
  <2>2. q \in Upload!Import /\ q.pid = r.pid /\ q.copy = r.copy /\ q.marked = r.marked /\ q.pc = "read"
    BY <1>0, Zenon DEF Upload!Import
  <2> HIDE DEF q
  <2> QED
    BY <1>2, <2>1, <2>2
<1>4. CASE Upload!Listed(i)
  <2> DEFINE q == [ r EXCEPT !.pc = "close", !.left = {} ]
  <2>1. imports' = [ imports EXCEPT ![i] = q ]
    BY <1>4, Zenon DEF Upload!Listed
  <2>2. q \in Upload!Import /\ q.pid = r.pid /\ q.copy = r.copy /\ q.marked = r.marked /\ q.pc = "close"
    BY <1>0, Zenon DEF Upload!Import
  <2> HIDE DEF q
  <2> QED
    BY <1>2, <2>1, <2>2
<1>5. CASE Upload!ReadAll(i)
  <2> DEFINE q == [ r EXCEPT !.pc = "close" ]
  <2>1. imports' = [ imports EXCEPT ![i] = q ]
    BY <1>5, Zenon DEF Upload!ReadAll
  <2>2. q \in Upload!Import /\ q.pid = r.pid /\ q.copy = r.copy /\ q.marked = r.marked /\ q.pc = "close"
    BY <1>0, Zenon DEF Upload!Import
  <2> HIDE DEF q
  <2> QED
    BY <1>2, <2>1, <2>2
<1>6. CASE Upload!FolderCutShort(i)
  <2>1. PICK rest \in SUBSET r.left : imports' = [ imports EXCEPT ![i].left = @ \ rest ]
    BY <1>6, Zenon DEF Upload!FolderCutShort
  <2> DEFINE left == r.left \ rest
             q == [ r EXCEPT !.left = left ]
  <2>2. imports' = [ imports EXCEPT ![i] = q ] /\ left \subseteq Entries
    BY <1>0, <2>1, ImportFields
  <2> HIDE DEF left
  <2>3. q \in Upload!Import /\ q.pid = r.pid /\ q.copy = r.copy /\ q.marked = r.marked /\ q.pc = r.pc
    BY <1>0, <2>2, Zenon DEF Upload!Import
  <2> HIDE DEF q
  <2> QED
    BY <1>1, <1>2, <2>2, <2>3
<1>7. ASSUME NEW e \in Entries, Upload!Read(i, e) PROVE UploadInv'
  <2> DEFINE left == r.left \ {e}
             more == r.offered \cup {e}
             a == [ r EXCEPT !.left = left, !.offered = more ]
             b == [ r EXCEPT !.left = left ]
             c == [ r EXCEPT !.pc = "close", !.thrown = TRUE ]
  <2>1. \/ imports' = [ imports EXCEPT ![i] = a ]
        \/ imports' = [ imports EXCEPT ![i] = b ]
        \/ imports' = [ imports EXCEPT ![i] = c ]
    BY <1>7, Zenon DEF Upload!Read
  <2>2. left \subseteq Entries /\ more \subseteq Entries
    BY <1>0, ImportFields
  <2> HIDE DEF left, more
  <2>3. a \in Upload!Import /\ a.pid = r.pid /\ a.copy = r.copy /\ a.marked = r.marked /\ a.pc = r.pc
    BY <1>0, <2>2, Zenon DEF Upload!Import
  <2>4. b \in Upload!Import /\ b.pid = r.pid /\ b.copy = r.copy /\ b.marked = r.marked /\ b.pc = r.pc
    BY <1>0, <2>2, Zenon DEF Upload!Import
  <2>5. c \in Upload!Import /\ c.pid = r.pid /\ c.copy = r.copy /\ c.marked = r.marked /\ c.pc = "close"
    BY <1>0, Zenon DEF Upload!Import
  <2> HIDE DEF a, b, c
  <2> QED
    BY <1>1, <1>2, <2>1, <2>3, <2>4, <2>5
<1> QED
  BY <1>3, <1>4, <1>5, <1>6, <1>7

\* An import that ends, or is started again, has nothing to lose.
LEMMA UploadEnds ==
  ASSUME UploadInv, NEW i \in Imports, Upload!Close(i) \/ Upload!Retry(i) PROVE UploadInv'
<1> DEFINE r == imports[i]
<1>0. r \in Upload!Import /\ host \in Upload!Host
  BY DEF UploadInv
<1>1. CASE Upload!Close(i)
  <2> DEFINE listed == r.job = "list" /\ ~ r.thrown
             pc1 == IF listed THEN "idle" ELSE IF r.thrown THEN "failed" ELSE "done"
             job == IF listed THEN "fetch" ELSE r.job
             upload == r.upload /\ ~ Upload!Deletes(r)
             q == [ r EXCEPT !.pc = pc1, !.job = job, !.pid = NoPid, !.copy = {}, !.left = {},
                             !.upload = upload ]
  <2>1. imports' = [ imports EXCEPT ![i] = q ] /\ UNCHANGED host
    BY <1>1, Zenon DEF Upload!Close
  <2>2. /\ pc1 \in { "idle", "failed", "done" } /\ job \in { "list", "fetch" } /\ upload \in BOOLEAN
        /\ NoPid \in Pids \cup {NoPid} /\ {} \in SUBSET Upload!Copies /\ {} \in SUBSET Entries
    <3>1. job \in { "list", "fetch" }
      BY <1>0, Zenon DEF Upload!Import
    <3>2. pc1 \in { "idle", "failed", "done" } /\ upload \in BOOLEAN
      BY Zenon
    <3> HIDE DEF pc1, job, upload
    <3> QED
      BY <3>1, <3>2
  <2> HIDE DEF pc1, job, upload
  <2>3. q \in Upload!Import /\ q.pc = pc1
    BY <1>0, <2>2, Zenon DEF Upload!Import
  <2> HIDE DEF q
  <2>4. ImportKept(q, host.dead)
    BY <2>2, <2>3 DEF ImportKept
  <2> QED
    BY <1>0, <2>1, <2>3, <2>4, UploadChanged
<1>2. CASE Upload!Retry(i)
  <2> DEFINE q == [ r EXCEPT !.pc = "idle", !.job = "list", !.thrown = FALSE, !.offered = {} ]
  <2>1. imports' = [ imports EXCEPT ![i] = q ] /\ UNCHANGED host
    BY <1>2, Zenon DEF Upload!Retry
  <2>2. {} \in SUBSET Entries
    OBVIOUS
  <2>3. q \in Upload!Import /\ q.pc = "idle"
    BY <1>0, <2>2, Zenon DEF Upload!Import
  <2> HIDE DEF q
  <2>4. ImportKept(q, host.dead)
    BY <2>3 DEF ImportKept
  <2> QED
    BY <1>0, <2>1, <2>3, <2>4, UploadChanged
<1> QED
  BY <1>1, <1>2

\* A copy that grows old keeps its owner.
LEMMA UploadAges ==
  ASSUME UploadInv, NEW i \in Imports, Upload!Ages(i) PROVE UploadInv'
<1> DEFINE r == imports[i]
           aged == { [ c EXCEPT !.old = TRUE ] : c \in r.copy }
           q == [ r EXCEPT !.copy = aged ]
<1>0. r \in Upload!Import /\ host \in Upload!Host /\ r.pc \in { "copy", "read" } /\ ImportKept(r, host.dead)
  BY DEF UploadInv, Upload!Ages
<1>1. imports' = [ imports EXCEPT ![i] = q ] /\ UNCHANGED host
  BY Zenon DEF Upload!Ages
<1>2. /\ aged \subseteq Upload!Copies /\ (r.copy # {} => aged # {})
      /\ \A p : (\A c \in r.copy : c.owner = p) => (\A c \in aged : c.owner = p)
  <2>1. \A c \in Upload!Copies : [ c EXCEPT !.old = TRUE ] \in Upload!Copies
        /\ [ c EXCEPT !.old = TRUE ].owner = c.owner
    BY Zenon DEF Upload!Copies
  <2>2. r.copy \subseteq Upload!Copies
    BY <1>0, ImportFields
  <2> HIDE DEF r
  <2> QED
    BY <2>1, <2>2, Zenon
<1> HIDE DEF r, aged
<1>3. q \in Upload!Import /\ q.pc = r.pc /\ q.pid = r.pid /\ q.copy = aged /\ q.marked = r.marked
  BY <1>0, <1>2, Zenon DEF Upload!Import
<1> HIDE DEF q
<1>4. Marked(q) <=> Marked(r)
  BY <1>3, Zenon DEF Marked
<1>5. ImportKept(q, host.dead)
  BY <1>0, <1>2, <1>3, <1>4 DEF ImportKept
<1> QED
  BY <1>0, <1>1, <1>3, <1>5, UploadChanged

\* Imports that lose their process lose their copies to the litter with it.
LEMMA UploadKilled ==
  ASSUME Upload!FileAssumption, UploadInv, NEW p \in Pids, Upload!Killed(p) PROVE UploadInv'
<1> DEFINE hit == { i \in Imports : imports[i].pid = p }
           litter == host.litter \cup UNION { imports[i].copy : i \in hit }
           dead == host.dead \cup {p}
<1>0. imports \in [Imports -> Upload!Import] /\ host \in Upload!Host
      /\ \A i \in Imports : ImportKept(imports[i], host.dead)
  BY DEF UploadInv
<1>1. /\ host' = [ dead |-> dead, litter |-> litter ]
      /\ imports' = [ i \in Imports |->
          IF i \in hit THEN [ imports[i] EXCEPT !.pc = "failed", !.pid = NoPid, !.copy = {},
                                                !.left = {} ]
          ELSE imports[i] ]
  BY Zenon DEF Upload!Killed
<1>2. litter \subseteq Upload!Copies /\ dead \subseteq Pids
  <2>1. \A i \in Imports : imports[i].copy \subseteq Upload!Copies
    BY <1>0, ImportFields
  <2>2. host.litter \subseteq Upload!Copies /\ host.dead \subseteq Pids
    BY <1>0 DEF Upload!Host
  <2> QED
    BY <2>1, <2>2
<1> HIDE DEF litter
<1>3. host' \in Upload!Host /\ host'.dead = dead
  BY <1>1, <1>2 DEF Upload!Host
<1>4. ASSUME NEW i \in Imports PROVE imports'[i] \in Upload!Import /\ ImportKept(imports'[i], dead)
  <2>1. CASE i \in hit
    <3>1. imports'[i] = [ imports[i] EXCEPT !.pc = "failed", !.pid = NoPid, !.copy = {}, !.left = {} ]
      BY <1>1, <2>1, Zenon
    <3>2. imports[i] \in Upload!Import /\ NoPid \in Pids \cup {NoPid} /\ {} \in SUBSET Upload!Copies
          /\ {} \in SUBSET Entries
      BY <1>0
    <3>3. imports'[i] \in Upload!Import /\ imports'[i].pc = "failed"
      BY <3>1, <3>2, Zenon DEF Upload!Import
    <3> QED
      BY <3>3 DEF ImportKept
  <2>2. CASE i \notin hit
    <3>1. imports'[i] = imports[i] /\ imports[i].pid # p
      BY <1>1, <2>2
    <3> QED
      BY <1>0, <3>1 DEF ImportKept
  <2> QED
    BY <2>1, <2>2
<1>5. \A i \in Imports : imports'[i] \in Upload!Import /\ ImportKept(imports'[i], dead)
  BY <1>4
<1>6. imports' \in [Imports -> Upload!Import]
  BY <1>1, <1>5, Zenon
<1> QED
  BY <1>3, <1>5, <1>6 DEF UploadInv, ImportKept

LEMMA UploadRestarted ==
  ASSUME UploadInv, NEW p \in Pids, Upload!Restarted(p) PROVE UploadInv'
<1>1. host' = [ host EXCEPT !.dead = @ \ {p} ] /\ UNCHANGED imports
  BY DEF Upload!Restarted
<1>2. host' \in Upload!Host /\ host'.dead \subseteq host.dead
  BY <1>1 DEF UploadInv, Upload!Host
<1> QED
  BY <1>1, <1>2 DEF UploadInv, ImportKept

LEMMA UploadNext == Upload!FileAssumption /\ UploadInv /\ Upload!Next => UploadInv'
<1> SUFFICES ASSUME Upload!FileAssumption, UploadInv, Upload!Next PROVE UploadInv'
  OBVIOUS
<1>1. ASSUME NEW i \in Imports, Upload!ImportStep(i) \/ Upload!Retry(i) \/ Upload!Ages(i) PROVE UploadInv'
  BY <1>1, UploadBegin, UploadLoad, UploadSentinel, UploadFails, UploadReads, UploadEnds, UploadAges, Zenon
     DEF Upload!ImportStep
<1> QED
  BY <1>1, UploadKilled, UploadRestarted, Zenon DEF Upload!Next

LEMMA UploadKeeps == UploadInv => Upload!CopyKept
<1> SUFFICES ASSUME UploadInv, NEW i \in Imports, imports[i].pc \in { "copy", "read" }, imports[i].marked
             PROVE  imports[i].copy # {}
  BY Zenon DEF Upload!CopyKept
<1>1. Marked(imports[i])
  <2>1. imports[i] \in Upload!Import
    BY DEF UploadInv
  <2>2. imports[i].marked \in BOOLEAN
    BY <2>1, Zenon DEF Upload!Import
  <2> QED
    BY <2>2, Zenon DEF Marked
<1> QED
  BY <1>1 DEF UploadInv, ImportKept

-----------------------------------------------------------------------------
(* The stream of a Mbox file.                                                *)

First == split.first = TRUE
Ended == split.done = TRUE

\* The messages are the stretches of the text that start no later than upto.
Placed(place, text, mails, upto) ==
    /\ place \in [ DOMAIN mails -> Mbox!Stretches(text) ]
    /\ \A k \in DOMAIN mails :
          place[k][1] <= upto /\ mails[k] = SubSeq(text, place[k][1], place[k][2])
    /\ \A j, k \in DOMAIN mails : j < k => place[j][1] < place[k][1]
    /\ \A p \in Mbox!Stretches(text) : p[1] <= upto => \E k \in DOMAIN mails : place[k] = p

\* The n letters of a text behind its first ones.
IsSlice(s, from, n, text) ==
    s \in Seq(Mbox!Letters) /\ Len(s) = n /\ \A k \in 1 .. n : s[k] = text[from + k]

\* The buffer holds what follows in the text behind its first left letters.
Streamed(file, taken, buffer, mails, left) ==
    LET text == Mbox!TextOf(file)
    IN /\ file # << >> /\ taken <= Len(file)
       /\ left + Len(buffer) + Len(file) = taken + Len(text)
       /\ IsSlice(buffer, left, Len(buffer), text)
       /\ \E place : Placed(place, text, mails, left)

SplitFresh ==
    /\ split.taken = 0 /\ split.buffer = << >> /\ split.mails = << >>
    /\ Ended => split.file = << >>

\* The stream goes on from the start of a message, or all of it has come out.
SplitStarted ==
    \E left \in Nat :
        /\ Streamed(split.file, split.taken, split.buffer, split.mails, left)
        /\ IF Ended THEN left = Len(Mbox!TextOf(split.file))
           ELSE left + 1 \in Mbox!Starts(Mbox!TextOf(split.file))

SplitInv ==
    /\ split \in Mbox!Splitter
    /\ IF First THEN SplitFresh ELSE SplitStarted

LEMMA Slice ==
  ASSUME NEW s \in Seq(Mbox!Letters), NEW m \in Nat, NEW n \in Nat, m + n <= Len(s)
  PROVE  IsSlice(SubSeq(s, m + 1, m + n), m, n, s)
<1>1. Len(s) \in Nat
  BY LenProperties
<1>2. \A i \in m + 1 .. m + n : s[i] \in Mbox!Letters
  BY <1>1, ElementOfSeq
<1>3. m + 1 \in Int /\ m + n \in Int
  OBVIOUS
<1>4. /\ SubSeq(s, m + 1, m + n) \in Seq(Mbox!Letters)
      /\ Len(SubSeq(s, m + 1, m + n)) = IF m + 1 <= m + n THEN (m + n) - (m + 1) + 1 ELSE 0
      /\ \A k \in 1 .. (m + n) - (m + 1) + 1 : SubSeq(s, m + 1, m + n)[k] = s[(m + 1) + k - 1]
  BY <1>2, <1>3, SubSeqProperties
<1>5. (m + n) - (m + 1) + 1 = n /\ (\A k \in 1 .. n : (m + 1) + k - 1 = m + k)
      /\ (IF m + 1 <= m + n THEN (m + n) - (m + 1) + 1 ELSE 0) = n
  BY SMT
<1> QED
  BY <1>4, <1>5 DEF IsSlice

LEMMA SlicesEqual == ASSUME NEW s, NEW t, NEW from, NEW n \in Nat, NEW text, IsSlice(s, from, n, text),
                            IsSlice(t, from, n, text) PROVE s = t
  BY SeqEqual DEF IsSlice

\* Where a delimiter is.
LEMMA Delimiters ==
  ASSUME NEW s \in Seq(Mbox!Letters), NEW i
  PROVE  i \in Mbox!Occurrences(s, Mbox!Delimiter) <=>
           i \in 1 .. Len(s) /\ i + 2 <= Len(s) /\ s[i] = "n" /\ s[i + 1] = "F" /\ s[i + 2] = "r"
<1>1. << "n" >> \in Seq(Mbox!Letters) /\ << "F", "r" >> \in Seq(Mbox!Letters)
  BY DEF Mbox!Letters
<1>2. /\ Len(Mbox!Delimiter) = 3
      /\ Mbox!Delimiter[1] = "n" /\ Mbox!Delimiter[2] = "F" /\ Mbox!Delimiter[3] = "r"
  BY <1>1 DEF Mbox!Delimiter, Mbox!From
<1> HIDE DEF Mbox!Delimiter
<1> QED
  BY <1>2, SMT DEF Mbox!Occurrences

LEMMA Beginnings ==
  ASSUME NEW s \in Seq(Mbox!Letters)
  PROVE  Mbox!Begins(s, Mbox!From) <=> 2 <= Len(s) /\ s[1] = "F" /\ s[2] = "r"
<1>1. Mbox!From = << "F", "r" >> /\ Len(Mbox!From) = 2
  BY DEF Mbox!From
<1> QED
  BY <1>1, SMT DEF Mbox!Begins, Mbox!Occurrences

\* The text of a file ends with the file, and begins with "From ".
LEMMA Texts ==
  ASSUME NEW file \in Seq(Mbox!Letters)
  PROVE  /\ Mbox!TextOf(file) \in Seq(Mbox!Letters)
         /\ Len(Mbox!TextOf(file)) - Len(file) \in { 0, 2 }
         /\ \A j \in 1 .. Len(file) : Mbox!TextOf(file)[Len(Mbox!TextOf(file)) - Len(file) + j] = file[j]
         /\ file # << >> => /\ Len(Mbox!TextOf(file)) >= 2
                            /\ Mbox!TextOf(file)[1] = "F"
<1>1. Mbox!From = << "F", "r" >> /\ Len(Mbox!From) = 2 /\ Mbox!From \in Seq(Mbox!Letters)
  BY DEF Mbox!From, Mbox!Letters
<1>2. CASE file = << >> \/ Mbox!Begins(file, Mbox!From)
  <2>1. Mbox!TextOf(file) = file
    BY <1>2 DEF Mbox!TextOf
  <2> QED
    BY <1>2, <2>1, Beginnings
<1>3. CASE ~ (file = << >> \/ Mbox!Begins(file, Mbox!From))
  <2>1. Mbox!TextOf(file) = Mbox!From \o file
    BY <1>3 DEF Mbox!TextOf
  <2> QED
    BY <1>1, <2>1
<1> QED
  BY <1>2, <1>3

LEMMA Started ==
  ASSUME NEW text \in Seq(Mbox!Letters), NEW i
  PROVE  /\ Mbox!Starts(text) \subseteq Nat \ {0}
         /\ i \in Mbox!Starts(text) /\ i # 1 => i + 1 <= Len(text) /\ text[i] = "F"
         /\ i \in Mbox!Occurrences(text, Mbox!Delimiter) => i + 1 \in Mbox!Starts(text)
         /\ i \in Mbox!Starts(text) /\ i # 1 => i - 1 \in Mbox!Occurrences(text, Mbox!Delimiter)
  BY Delimiters, SMT DEF Mbox!Starts

LEMMA OneStretch ==
  ASSUME NEW text \in Seq(Mbox!Letters), NEW p \in Mbox!Stretches(text), NEW q \in Mbox!Stretches(text),
         p[1] = q[1]
  PROVE  p = q
<1>1. p[2] \in 1 .. Len(text) /\ q[2] \in 1 .. Len(text) /\ p = << p[1], p[2] >> /\ q = << q[1], q[2] >>
  BY SMT DEF Mbox!Stretches
<1>2. p[1] \in Nat
  BY Started, SMT DEF Mbox!Stretches
<1>3. \A s \in Mbox!Starts(text) : s \in Nat
  BY Started, SMT
<1>4. p[2] = q[2]
  BY <1>1, <1>2, <1>3, SMT DEF Mbox!Stretches
<1> QED
  BY <1>1, <1>4

\* The next message to come out is the next stretch.
LEMMA NextPlace ==
  ASSUME NEW text \in Seq(Mbox!Letters), NEW mails \in Seq(Seq(Mbox!Letters)), NEW from \in Nat, NEW to \in Nat,
         NEW old, Placed(old, text, mails, from),
         NEW p \in Mbox!Stretches(text), p[1] = from + 1, from < to,
         \A s \in Mbox!Starts(text) : s <= from + 1 \/ to < s
  PROVE  \E place : Placed(place, text, Append(mails, SubSeq(text, p[1], p[2])), to)
<1> DEFINE new == Append(mails, SubSeq(text, p[1], p[2]))
           place == [ k \in 1 .. Len(mails) + 1 |-> IF k <= Len(mails) THEN old[k] ELSE p ]
<1>1. DOMAIN mails = 1 .. Len(mails) /\ Len(mails) \in Nat
  OBVIOUS
<1>0. SubSeq(text, p[1], p[2]) \in Seq(Mbox!Letters)
  BY Started, SMT DEF Mbox!Stretches
<1>2. DOMAIN new = 1 .. Len(mails) + 1
  BY <1>0, <1>1
<1>3. /\ \A k \in 1 .. Len(mails) : new[k] = mails[k]
      /\ new[Len(mails) + 1] = SubSeq(text, p[1], p[2])
  BY <1>0, <1>1
<1>4. /\ \A k \in 1 .. Len(mails) : place[k] = old[k]
      /\ place[Len(mails) + 1] = p
  BY <1>1
<1>5. place \in [ DOMAIN new -> Mbox!Stretches(text) ]
  BY <1>1, <1>2 DEF Placed
<1>6. \A q \in Mbox!Stretches(text) : q[1] \in Mbox!Starts(text) /\ q[1] \in Nat
  BY Started, SMT DEF Mbox!Stretches
<1> HIDE DEF new, place
<1>7. \A k \in DOMAIN new : place[k][1] <= to /\ new[k] = SubSeq(text, place[k][1], place[k][2])
  <2> SUFFICES ASSUME NEW k \in DOMAIN new PROVE place[k][1] <= to /\ new[k] = SubSeq(text, place[k][1], place[k][2])
    OBVIOUS
  <2>1. CASE k \in 1 .. Len(mails)
    <3>1. place[k] = old[k] /\ new[k] = mails[k] /\ old[k] \in Mbox!Stretches(text)
      BY <1>1, <1>3, <1>4, <2>1 DEF Placed
    <3>2. old[k][1] <= from /\ mails[k] = SubSeq(text, old[k][1], old[k][2]) /\ old[k][1] \in Nat
      BY <1>1, <1>6, <2>1, <3>1 DEF Placed
    <3> QED
      BY <3>1, <3>2, SMT
  <2>2. CASE k = Len(mails) + 1
    <3>1. place[k] = p /\ new[k] = SubSeq(text, p[1], p[2])
      BY <1>3, <1>4, <2>2, Zenon
    <3>2. p[1] <= to
      BY SMT
    <3> QED
      BY <3>1, <3>2, Zenon
  <2>3. k \in 1 .. Len(mails) \/ k = Len(mails) + 1
    BY <1>1, <1>2, SMT
  <2> QED
    BY <2>1, <2>2, <2>3
<1>8. \A j, k \in DOMAIN new : j < k => place[j][1] < place[k][1]
  <2> SUFFICES ASSUME NEW j \in DOMAIN new, NEW k \in DOMAIN new, j < k PROVE place[j][1] < place[k][1]
    OBVIOUS
  <2>1. j \in 1 .. Len(mails) /\ place[j] = old[j] /\ old[j][1] <= from /\ old[j] \in Mbox!Stretches(text)
    BY <1>1, <1>2, <1>4, SMT DEF Placed
  <2>2. CASE k \in 1 .. Len(mails)
    BY <1>1, <1>4, <2>1, <2>2 DEF Placed
  <2>3. CASE k = Len(mails) + 1
    BY <1>4, <1>6, <2>1, <2>3, SMT
  <2> QED
    BY <1>1, <1>2, <2>2, <2>3, SMT
<1>9. \A q \in Mbox!Stretches(text) : q[1] <= to => \E k \in DOMAIN new : place[k] = q
  <2> SUFFICES ASSUME NEW q \in Mbox!Stretches(text), q[1] <= to PROVE \E k \in DOMAIN new : place[k] = q
    OBVIOUS
  <2>1. CASE q[1] <= from
    <3>1. PICK k \in DOMAIN mails : old[k] = q
      BY <2>1 DEF Placed
    <3>2. k \in DOMAIN new /\ place[k] = q
      BY <1>1, <1>2, <1>4, <3>1, SMT
    <3> QED
      BY <3>2, Zenon
  <2>2. CASE ~ (q[1] <= from)
    <3>1. q[1] = from + 1
      BY <1>6, <2>2, SMT
    <3>2. q = p
      BY <3>1, OneStretch
    <3>3. Len(mails) + 1 \in DOMAIN new /\ place[Len(mails) + 1] = q
      BY <1>1, <1>2, <1>4, <3>2
    <3> QED
      BY <3>3, Zenon
  <2> QED
    BY <2>1, <2>2
<1> QED
  BY <1>5, <1>7, <1>8, <1>9 DEF Placed, new

LEMMA SplitFields ==
  ASSUME split \in Mbox!Splitter, Mbox!SplitterAssumption
  PROVE  /\ split.file \in Files /\ split.file \in Seq(Mbox!Letters) /\ split.taken \in Nat
         /\ split.first \in BOOLEAN /\ split.done \in BOOLEAN
         /\ split.buffer \in Seq(Mbox!Letters) /\ split.mails \in Seq(Seq(Mbox!Letters))
  BY DEF Mbox!Splitter, Mbox!SplitterAssumption

LEMMA SplitInit == Mbox!SplitterAssumption /\ Mbox!Init => SplitInv
<1> SUFFICES ASSUME Mbox!SplitterAssumption, Mbox!Init PROVE SplitInv
  OBVIOUS
<1>1. PICK f \in Files :
        split = [ file |-> f, taken |-> 0, first |-> TRUE, buffer |-> << >>, mails |-> << >>, done |-> FALSE ]
  BY DEF Mbox!Init
<1>2. split \in Mbox!Splitter
  BY <1>1 DEF Mbox!Splitter
<1> QED
  BY <1>1, <1>2, SplitFields DEF SplitInv, SplitFresh, First, Ended

LEMMA EmptyPlace ==
  ASSUME NEW text \in Seq(Mbox!Letters) PROVE \E place : Placed(place, text, << >>, 0)
<1> DEFINE place == [ k \in DOMAIN << >> |-> 0 ]
<1>1. DOMAIN << >> = {}
  OBVIOUS
<1>2. \A p \in Mbox!Stretches(text) : ~ (p[1] <= 0)
  BY Started, SMT DEF Mbox!Stretches
<1>3. place \in [ DOMAIN << >> -> Mbox!Stretches(text) ]
  BY <1>1
<1>4. Placed(place, text, << >>, 0)
  BY <1>1, <1>2, <1>3, Zenon DEF Placed
<1> QED
  BY <1>4

\* The lengths: of what has left the buffer, the buffer, the file, what is taken and the text.
LEMMA LengthsRead ==
  ASSUME NEW l \in Nat, NEW b \in Nat, NEW f \in Nat, NEW t \in Nat, NEW x \in Nat, NEW n \in Nat, NEW c,
         l + b + f = t + x, c = b + n
  PROVE  l + c + f = (t + n) + x
  BY SMT

LEMMA LengthsPlace ==
  ASSUME NEW l \in Nat, NEW b \in Nat, NEW f \in Nat, NEW t \in Nat, NEW x \in Nat, NEW i \in Nat, NEW k,
         l + b + f = t + x, k = b + i
  PROVE  (x - f) + (t + i) = l + k
  BY SMT

LEMMA LengthsCut ==
  ASSUME NEW l \in Nat, NEW b \in Nat, NEW f \in Nat, NEW t \in Nat, NEW x \in Nat, NEW a \in Nat, NEW c,
         l + b + f = t + x, c = b - a
  PROVE  (l + a) + c + f = t + x
  BY SMT

LEMMA LengthsEnd ==
  ASSUME NEW l, NEW b \in Nat, NEW f \in Nat, NEW t \in Nat, NEW x \in Nat, l + b + f = t + x, l = x
  PROVE  t = f + b
  BY SMT

\* The first chunk.
LEMMA StreamBegins ==
  ASSUME NEW file \in Seq(Mbox!Letters), NEW n \in Nat \ {0}, n <= Len(file), NEW chunk, IsSlice(chunk, 0, n, file),
         n >= 2 \/ n = Len(file)
  PROVE  Streamed(file, n, IF Mbox!Begins(chunk, Mbox!From) THEN chunk ELSE Mbox!From \o chunk, << >>, 0)
<1> DEFINE text == Mbox!TextOf(file)
           buffer == IF Mbox!Begins(chunk, Mbox!From) THEN chunk ELSE Mbox!From \o chunk
<1>0. Len(file) \in Nat /\ file # << >>
  BY LenProperties
<1>1. chunk \in Seq(Mbox!Letters) /\ Len(chunk) = n /\ \A k \in 1 .. n : chunk[k] = file[k]
  BY DEF IsSlice
<1>2. Mbox!Begins(chunk, Mbox!From) <=> Mbox!Begins(file, Mbox!From)
  BY <1>0, <1>1, Beginnings, SMT
<1>3. Mbox!From \in Seq(Mbox!Letters) /\ Len(Mbox!From) = 2
  BY DEF Mbox!From, Mbox!Letters
<1>4. Len(buffer) + Len(file) = n + Len(text) /\ IsSlice(buffer, 0, Len(buffer), text)
  <2>1. CASE Mbox!Begins(file, Mbox!From)
    <3>1. buffer = chunk /\ text = file
      BY <1>2, <2>1 DEF Mbox!TextOf
    <3> HIDE DEF buffer, text
    <3>2. IsSlice(chunk, 0, Len(chunk), file)
      BY <1>1
    <3> QED
      BY <1>1, <3>1, <3>2
  <2>2. CASE ~ Mbox!Begins(file, Mbox!From)
    <3>1. buffer = Mbox!From \o chunk /\ text = Mbox!From \o file
      BY <1>0, <1>2, <2>2 DEF Mbox!TextOf
    <3> HIDE DEF buffer, text
    <3>2. ASSUME NEW t \in Seq(Mbox!Letters)
          PROVE  /\ Mbox!From \o t \in Seq(Mbox!Letters) /\ Len(Mbox!From \o t) = 2 + Len(t)
                 /\ \A k \in 1 .. 2 + Len(t) : (Mbox!From \o t)[k] = IF k <= 2 THEN Mbox!From[k] ELSE t[k - 2]
      <4>1. /\ Mbox!From \o t \in Seq(Mbox!Letters)
            /\ Len(Mbox!From \o t) = Len(Mbox!From) + Len(t)
            /\ \A k \in 1 .. Len(Mbox!From) + Len(t) :
                  (Mbox!From \o t)[k] = IF k <= Len(Mbox!From) THEN Mbox!From[k] ELSE t[k - Len(Mbox!From)]
        BY <1>3, ConcatProperties
      <4> QED
        BY <1>3, <4>1
    <3>3. /\ buffer \in Seq(Mbox!Letters) /\ Len(buffer) = 2 + n /\ Len(text) = 2 + Len(file)
          /\ \A k \in 1 .. 2 + n : buffer[k] = IF k <= 2 THEN Mbox!From[k] ELSE chunk[k - 2]
          /\ \A k \in 1 .. 2 + Len(file) : text[k] = IF k <= 2 THEN Mbox!From[k] ELSE file[k - 2]
      BY <1>1, <3>1, <3>2
    <3>4. \A k \in 1 .. 2 + n : buffer[k] = text[0 + k]
      BY <1>0, <1>1, <3>3, SMT
    <3>5. (2 + n) + Len(file) = n + (2 + Len(file))
      BY <1>0
    <3> QED
      BY <3>3, <3>4, <3>5 DEF IsSlice
  <2> QED
    BY <2>1, <2>2
<1>5. text \in Seq(Mbox!Letters) /\ Len(text) \in Nat
  BY Texts, LenProperties
<1>6. \E place : Placed(place, text, << >>, 0)
  BY <1>5, EmptyPlace
<1> HIDE DEF buffer
<1>7. 0 + Len(buffer) + Len(file) = n + Len(text)
  BY <1>0, <1>4, <1>5
<1>8. Streamed(file, n, buffer, << >>, 0)
  BY <1>0, <1>4, <1>6, <1>7, Zenon DEF Streamed
<1> QED
  BY <1>8 DEF buffer

\* What the buffer, the text and the file have to do with each other.
LEMMA StreamBuffer ==
  ASSUME NEW file \in Seq(Mbox!Letters), NEW taken, NEW buffer, NEW mails, NEW left,
         Streamed(file, taken, buffer, mails, left), NEW text, text = Mbox!TextOf(file)
  PROVE  /\ text \in Seq(Mbox!Letters) /\ buffer \in Seq(Mbox!Letters)
         /\ Len(text) \in Nat /\ Len(buffer) \in Nat /\ Len(file) \in Nat
         /\ taken <= Len(file) /\ left + Len(buffer) + Len(file) = taken + Len(text)
         /\ file # << >> /\ IsSlice(buffer, left, Len(buffer), text)
         /\ \E place : Placed(place, text, mails, left)
<1>1. text \in Seq(Mbox!Letters) /\ Len(text) \in Nat /\ Len(file) \in Nat
  BY Texts, LenProperties
<1>2. /\ taken <= Len(file) /\ left + Len(buffer) + Len(file) = taken + Len(text)
      /\ file # << >> /\ IsSlice(buffer, left, Len(buffer), text)
      /\ \E place : Placed(place, text, mails, left)
  BY Zenon DEF Streamed
<1>3. buffer \in Seq(Mbox!Letters) /\ Len(buffer) \in Nat
  BY <1>2, LenProperties DEF IsSlice
<1> QED
  BY <1>1, <1>2, <1>3, Zenon

\* Nothing is left in the buffer when all of the text has left it.
LEMMA StreamOver ==
  ASSUME NEW file \in Seq(Mbox!Letters), NEW taken \in Nat, NEW buffer, NEW mails,
         Streamed(file, taken, buffer, mails, Len(Mbox!TextOf(file)))
  PROVE  /\ taken = Len(file) + Len(buffer) /\ taken <= Len(file)
         /\ Len(file) \in Nat /\ Len(buffer) \in Nat
<1> DEFINE text == Mbox!TextOf(file)
<1> HIDE DEF text
<1>1. /\ Len(text) \in Nat /\ Len(buffer) \in Nat /\ Len(file) \in Nat /\ taken <= Len(file)
      /\ Len(text) + Len(buffer) + Len(file) = taken + Len(text)
  BY StreamBuffer DEF text
<1> QED
  BY <1>1, LengthsEnd

LEMMA TextEnd ==
  ASSUME NEW file \in Seq(Mbox!Letters), NEW text, text = Mbox!TextOf(file)
  PROVE  IsSlice(file, Len(text) - Len(file), Len(file), text)
  BY Texts DEF IsSlice

\* A later chunk.
LEMMA StreamReads ==
  ASSUME NEW file \in Seq(Mbox!Letters), NEW taken \in Nat, NEW buffer, NEW mails,
         NEW left \in Nat, Streamed(file, taken, buffer, mails, left),
         NEW n \in Nat, taken + n <= Len(file), NEW chunk, IsSlice(chunk, taken, n, file)
  PROVE  Streamed(file, taken + n, buffer \o chunk, mails, left)
<1> DEFINE text == Mbox!TextOf(file)
           longer == buffer \o chunk
<1> HIDE DEF text
<1>1. /\ text \in Seq(Mbox!Letters) /\ buffer \in Seq(Mbox!Letters)
      /\ Len(text) \in Nat /\ Len(buffer) \in Nat /\ Len(file) \in Nat
      /\ left + Len(buffer) + Len(file) = taken + Len(text)
  BY StreamBuffer DEF text
<1>2. file # << >> /\ IsSlice(buffer, left, Len(buffer), text) /\ (\E place : Placed(place, text, mails, left))
  BY StreamBuffer DEF text
<1>3. chunk \in Seq(Mbox!Letters) /\ Len(chunk) = n
  BY DEF IsSlice
<1>4. longer \in Seq(Mbox!Letters) /\ Len(longer) = Len(buffer) + n
  <2>0. buffer \in Seq(Mbox!Letters) /\ chunk \in Seq(Mbox!Letters)
    BY <1>1, <1>3
  <2>1. longer \in Seq(Mbox!Letters) /\ Len(longer) = Len(buffer) + Len(chunk)
    BY <2>0, ConcatProperties, Zenon
  <2> QED
    BY <1>3, <2>1
<1>5. ASSUME NEW k \in 1 .. Len(buffer) PROVE longer[k] = buffer[k]
  BY <1>1, <1>3, ConcatProperties
<1>6. ASSUME NEW k \in 1 .. n PROVE longer[Len(buffer) + k] = chunk[k]
  <2>1. /\ Len(buffer) + k \in 1 .. Len(buffer) + n /\ ~ (Len(buffer) + k <= Len(buffer))
        /\ (Len(buffer) + k) - Len(buffer) = k
    BY <1>1
  <2> QED
    BY <1>1, <1>3, <2>1, ConcatProperties
<1> HIDE DEF longer
<1>7. left + Len(longer) + Len(file) = (taken + n) + Len(text)
  <2> DEFINE b == Len(buffer)  f == Len(file)  x == Len(text)  c == Len(longer)
  <2>1. b \in Nat /\ f \in Nat /\ x \in Nat /\ left + b + f = taken + x /\ c = b + n
    BY <1>1, <1>4, Zenon
  <2> HIDE DEF b, f, x, c
  <2>2. left + c + f = (taken + n) + x
    BY <2>1, LengthsRead
  <2> QED
    BY <2>2 DEF b, f, x, c
<1>8. ASSUME NEW k \in 1 .. Len(longer) PROVE longer[k] = text[left + k]
  <2>0. k \in 1 .. Len(buffer) + n
    BY <1>4
  <2>1. CASE k \in 1 .. Len(buffer)
    BY <1>2, <1>5, <2>1 DEF IsSlice
  <2>2. CASE k \notin 1 .. Len(buffer)
    <3>1. PICK i \in 1 .. n : k = Len(buffer) + i
      <4>1. k - Len(buffer) \in 1 .. n /\ k = Len(buffer) + (k - Len(buffer))
        BY <1>1, <2>0, <2>2, SMT
      <4> QED
        BY <4>1
    <3>2. longer[k] = chunk[i]
      BY <1>6, <3>1
    <3>3. chunk[i] = file[taken + i]
      BY DEF IsSlice
    <3>4. taken + i \in 1 .. Len(file)
      BY <1>1, SMT
    <3>5. file[taken + i] = text[(Len(text) - Len(file)) + (taken + i)]
      BY <3>4, TextEnd DEF IsSlice, text
    <3>6. (Len(text) - Len(file)) + (taken + i) = left + k
      <4> DEFINE b == Len(buffer)  f == Len(file)  x == Len(text)
      <4>1. i \in Nat
        OBVIOUS
      <4>2. b \in Nat /\ f \in Nat /\ x \in Nat /\ left + b + f = taken + x /\ k = b + i
        BY <1>1, <3>1, Zenon
      <4> HIDE DEF b, f, x
      <4>3. (x - f) + (taken + i) = left + k
        BY <4>1, <4>2, LengthsPlace
      <4> QED
        BY <4>3 DEF b, f, x
    <3> QED
      BY <3>2, <3>3, <3>5, <3>6
  <2> QED
    BY <2>1, <2>2
<1>9. IsSlice(longer, left, Len(longer), text)
  BY <1>4, <1>8 DEF IsSlice
<1>10. Streamed(file, taken + n, longer, mails, left)
  BY <1>2, <1>7, <1>9, Zenon DEF Streamed, text
<1> QED
  BY <1>10 DEF longer

\* A delimiter of the buffer is one of the text, and the other way round.
LEMMA StreamDelimiters ==
  ASSUME NEW text \in Seq(Mbox!Letters), NEW buffer \in Seq(Mbox!Letters), NEW left \in Nat,
         left + Len(buffer) <= Len(text), IsSlice(buffer, left, Len(buffer), text),
         NEW i \in Nat \ {0}, i + 2 <= Len(buffer)
  PROVE  left + i \in Mbox!Occurrences(text, Mbox!Delimiter) <=> i \in Mbox!Occurrences(buffer, Mbox!Delimiter)
<1>0. Len(text) \in Nat /\ Len(buffer) \in Nat
  BY LenProperties
<1>1. /\ buffer[i] = text[left + i] /\ buffer[i + 1] = text[(left + i) + 1]
      /\ buffer[i + 2] = text[(left + i) + 2]
  <2>1. /\ i \in 1 .. Len(buffer) /\ i + 1 \in 1 .. Len(buffer) /\ i + 2 \in 1 .. Len(buffer)
        /\ left + (i + 1) = (left + i) + 1 /\ left + (i + 2) = (left + i) + 2
    BY <1>0, SMT
  <2>2. /\ buffer[i] = text[left + i] /\ buffer[i + 1] = text[left + (i + 1)]
        /\ buffer[i + 2] = text[left + (i + 2)]
    BY <2>1, Zenon DEF IsSlice
  <2> QED
    BY <2>1, <2>2, Zenon
<1>2. i \in 1 .. Len(buffer) /\ left + i \in 1 .. Len(text) /\ (left + i) + 2 <= Len(text)
  BY <1>0, SMT
<1>3. i \in Mbox!Occurrences(buffer, Mbox!Delimiter) <=>
        i \in 1 .. Len(buffer) /\ i + 2 <= Len(buffer) /\ buffer[i] = "n" /\ buffer[i + 1] = "F" /\ buffer[i + 2] = "r"
  BY Delimiters
<1>4. left + i \in Mbox!Occurrences(text, Mbox!Delimiter) <=>
        /\ left + i \in 1 .. Len(text) /\ (left + i) + 2 <= Len(text)
        /\ text[left + i] = "n" /\ text[(left + i) + 1] = "F" /\ text[(left + i) + 2] = "r"
  BY Delimiters
<1> QED
  BY <1>1, <1>2, <1>3, <1>4, Zenon

\* No message starts between the one in the buffer and the next delimiter there.
LEMMA StreamGap ==
  ASSUME NEW text \in Seq(Mbox!Letters), NEW buffer \in Seq(Mbox!Letters), NEW left \in Nat,
         left + Len(buffer) <= Len(text), IsSlice(buffer, left, Len(buffer), text),
         NEW s \in Mbox!Starts(text), s > left + 1, s + 1 <= left + Len(buffer)
  PROVE  s - 1 - left \in Nat /\ s - 1 - left \in Mbox!Occurrences(buffer, Mbox!Delimiter)
<1>0. Len(buffer) \in Nat /\ s \in Nat /\ s # 1
  <2>1. Len(buffer) \in Nat /\ s \in Nat
    BY LenProperties, Started
  <2> QED
    BY <2>1, SMT
<1>1. s - 1 \in Mbox!Occurrences(text, Mbox!Delimiter)
  BY <1>0, Started
<1>2. /\ s - 1 - left \in Nat \ {0} /\ (s - 1 - left) + 2 <= Len(buffer)
      /\ left + (s - 1 - left) = s - 1
  BY <1>0, SMT
<1> QED
  BY <1>1, <1>2, StreamDelimiters

\* A text does not begin with a newline where a message starts.
LEMMA StartsWithF ==
  ASSUME NEW file \in Seq(Mbox!Letters), file # << >>, NEW text, text = Mbox!TextOf(file), NEW left \in Nat,
         left + 1 \in Mbox!Starts(text)
  PROVE  left + 2 <= Len(text) /\ text[left + 1] = "F"
<1>1. text \in Seq(Mbox!Letters) /\ Len(text) >= 2 /\ text[1] = "F"
  BY Texts
<1>2. CASE left = 0
  BY <1>1, <1>2
<1>3. CASE left # 0
  <2>1. left + 1 # 1
    BY <1>3, SMT
  <2>2. (left + 1) + 1 <= Len(text) /\ text[left + 1] = "F"
    BY <1>1, <2>1, Started
  <2>3. (left + 1) + 1 = left + 2
    BY SMT
  <2> QED
    BY <2>2, <2>3
<1> QED
  BY <1>2, <1>3

LEMMA StreamCut ==
  ASSUME NEW file \in Seq(Mbox!Letters), NEW taken \in Nat, NEW buffer,
         NEW mails \in Seq(Seq(Mbox!Letters)), NEW left \in Nat, Streamed(file, taken, buffer, mails, left),
         NEW text, text = Mbox!TextOf(file), left + 1 \in Mbox!Starts(text),
         NEW at \in Mbox!Occurrences(buffer, Mbox!Delimiter),
         \A other \in Mbox!Occurrences(buffer, Mbox!Delimiter) : at <= other
  PROVE  /\ SubSeq(buffer, 1, at - 1) \in Seq(Mbox!Letters) /\ SubSeq(buffer, 1, at - 1) # << >>
         /\ SubSeq(buffer, at + 1, Len(buffer)) \in Seq(Mbox!Letters)
         /\ Streamed(file, taken, SubSeq(buffer, at + 1, Len(buffer)), Append(mails, SubSeq(buffer, 1, at - 1)),
                     left + at)
         /\ left + at \in Nat /\ (left + at) + 1 \in Mbox!Starts(text)
<1> DEFINE email == SubSeq(buffer, 1, at - 1)
           rest == SubSeq(buffer, at + 1, Len(buffer))
           p == << left + 1, left + at - 1 >>
<1>1. /\ text \in Seq(Mbox!Letters) /\ buffer \in Seq(Mbox!Letters)
      /\ Len(text) \in Nat /\ Len(buffer) \in Nat /\ Len(file) \in Nat
      /\ taken <= Len(file) /\ left + Len(buffer) + Len(file) = taken + Len(text)
  BY StreamBuffer
<1>2. file # << >> /\ IsSlice(buffer, left, Len(buffer), text) /\ (\E place : Placed(place, text, mails, left))
  BY StreamBuffer
<1>3. left + Len(buffer) <= Len(text)
  BY <1>1, SMT
<1>4. at \in Nat \ {0} /\ at + 2 <= Len(buffer) /\ buffer[at] = "n"
  BY <1>1, Delimiters
<1>5. at >= 2
  <2>1. 1 \in 1 .. Len(buffer)
    BY <1>1, <1>4, SMT
  <2>2. buffer[1] = text[left + 1] /\ text[left + 1] = "F"
    BY <1>2, <2>1, StartsWithF DEF IsSlice
  <2>3. at # 1
    BY <1>4, <2>2
  <2> QED
    BY <1>4, <2>3, SMT
<1>6. IsSlice(email, 0, at - 1, buffer)
  <2>1. at - 1 \in Nat /\ 0 + (at - 1) <= Len(buffer) /\ 0 + 1 = 1 /\ 0 + (at - 1) = at - 1
    BY <1>1, <1>4, SMT
  <2>2. IsSlice(SubSeq(buffer, 0 + 1, 0 + (at - 1)), 0, at - 1, buffer)
    BY <1>1, <2>1, Slice
  <2> QED
    BY <2>1, <2>2
<1>7. IsSlice(rest, at, Len(buffer) - at, buffer)
  <2>1. Len(buffer) - at \in Nat /\ at + (Len(buffer) - at) <= Len(buffer)
        /\ at + (Len(buffer) - at) = Len(buffer)
    BY <1>1, <1>4, SMT
  <2>2. IsSlice(SubSeq(buffer, at + 1, at + (Len(buffer) - at)), at, Len(buffer) - at, buffer)
    BY <1>1, <1>4, <2>1, Slice
  <2> QED
    BY <2>1, <2>2
<1> HIDE DEF email, rest
<1>8. /\ email \in Seq(Mbox!Letters) /\ email # << >>
  <2>1. email \in Seq(Mbox!Letters) /\ Len(email) = at - 1
    BY <1>6 DEF IsSlice
  <2>2. at - 1 # 0
    BY <1>4, <1>5, SMT
  <2> QED
    BY <2>1, <2>2
<1>9. email = SubSeq(text, left + 1, left + at - 1)
  <2>1. /\ at - 1 \in Nat /\ left + (at - 1) <= Len(text) /\ left + (at - 1) = left + at - 1
    BY <1>1, <1>3, <1>4, SMT
  <2>2. IsSlice(SubSeq(text, left + 1, left + (at - 1)), left, at - 1, text)
    BY <1>1, <2>1, Slice
  <2>3. \A k \in 1 .. at - 1 : k \in 1 .. Len(buffer) /\ 0 + k = k
    BY <1>1, <1>4, SMT
  <2>4. IsSlice(email, left, at - 1, text)
    BY <1>2, <1>6, <2>3 DEF IsSlice
  <2> QED
    BY <2>1, <2>2, <2>4, SlicesEqual
<1>10. \A s \in Mbox!Starts(text) : s <= left + 1 \/ left + at < s
  <2> SUFFICES ASSUME NEW s \in Mbox!Starts(text) PROVE s <= left + 1 \/ left + at < s
    OBVIOUS
  <2>1. s \in Nat
    BY <1>1, Started
  <2>2. CASE s > left + 1 /\ s <= left + at
    <3>1. s + 1 <= left + Len(buffer)
      BY <1>1, <1>4, <2>1, <2>2, SMT
    <3>2. s - 1 - left \in Mbox!Occurrences(buffer, Mbox!Delimiter)
      BY <1>1, <1>2, <1>3, <2>2, <3>1, StreamGap
    <3>3. at <= s - 1 - left
      BY <3>2
    <3> QED
      BY <1>4, <2>1, <2>2, <3>3, SMT
  <2> QED
    BY <1>4, <2>1, <2>2, SMT
<1>11. left + at \in Nat /\ (left + at) + 1 \in Mbox!Starts(text)
  <2>1. left + at \in Mbox!Occurrences(text, Mbox!Delimiter)
    BY <1>1, <1>2, <1>3, <1>4, StreamDelimiters
  <2> QED
    BY <1>1, <1>4, <2>1, Started
<1>12. p \in Mbox!Stretches(text) /\ p[1] = left + 1 /\ p[2] = left + at - 1
  <2>1. /\ left + at - 1 \in 1 .. Len(text) /\ left + 1 <= left + at - 1
        /\ (left + at - 1) + 1 = left + at /\ (left + at - 1) + 2 = (left + at) + 1
    BY <1>1, <1>3, <1>4, <1>5, SMT
  <2>2. p \in Mbox!Starts(text) \X (1 .. Len(text)) /\ p[1] = left + 1 /\ p[2] = left + at - 1
    BY <2>1
  <2> HIDE DEF p
  <2>3. \A s \in Mbox!Starts(text) : s <= p[1] \/ p[2] + 1 < s
    BY <1>10, <2>1, <2>2
  <2>4. p[1] <= p[2] /\ p[2] + 2 \in Mbox!Starts(text)
    BY <1>11, <2>1, <2>2
  <2> QED
    BY <2>2, <2>3, <2>4, Zenon DEF Mbox!Stretches
<1> HIDE DEF p
<1>13. \E place : Placed(place, text, Append(mails, email), left + at)
  <2>1. PICK old : Placed(old, text, mails, left)
    BY <1>2
  <2>2. left < left + at
    BY <1>4, SMT
  <2>3. \E place : Placed(place, text, Append(mails, SubSeq(text, p[1], p[2])), left + at)
    BY <1>1, <1>10, <1>11, <1>12, <2>1, <2>2, NextPlace
  <2> QED
    BY <1>9, <1>12, <2>3
<1>14. rest \in Seq(Mbox!Letters) /\ Len(rest) = Len(buffer) - at
  BY <1>7 DEF IsSlice
<1>15. IsSlice(rest, left + at, Len(rest), text)
  <2>1. ASSUME NEW k \in 1 .. Len(rest) PROVE rest[k] = text[(left + at) + k]
    <3>1. /\ k \in 1 .. Len(buffer) - at /\ at + k \in 1 .. Len(buffer)
          /\ left + (at + k) = (left + at) + k
      BY <1>1, <1>4, <1>14, SMT
    <3>2. rest[k] = buffer[at + k]
      BY <1>7, <3>1 DEF IsSlice
    <3>3. buffer[at + k] = text[left + (at + k)]
      BY <1>2, <3>1 DEF IsSlice
    <3> QED
      BY <3>1, <3>2, <3>3
  <2> QED
    BY <1>14, <2>1 DEF IsSlice
<1>16. (left + at) + Len(rest) + Len(file) = taken + Len(text)
  <2> DEFINE b == Len(buffer)  f == Len(file)  x == Len(text)  c == Len(rest)
  <2>1. at \in Nat
    BY <1>4
  <2>2. b \in Nat /\ f \in Nat /\ x \in Nat /\ left + b + f = taken + x /\ c = b - at
    BY <1>1, <1>14, Zenon
  <2> HIDE DEF b, f, x, c
  <2>3. (left + at) + c + f = taken + x
    BY <2>1, <2>2, LengthsCut
  <2> QED
    BY <2>3 DEF b, f, x, c
<1>17. Streamed(file, taken, rest, Append(mails, email), left + at)
  BY <1>1, <1>2, <1>13, <1>15, <1>16, Zenon DEF Streamed
<1> QED
  BY <1>8, <1>11, <1>14, <1>17 DEF email, rest

LEMMA StreamEnds ==
  ASSUME NEW file \in Seq(Mbox!Letters), NEW buffer,
         NEW mails \in Seq(Seq(Mbox!Letters)), NEW left \in Nat, Streamed(file, Len(file), buffer, mails, left),
         NEW text, text = Mbox!TextOf(file), left + 1 \in Mbox!Starts(text),
         Mbox!Occurrences(buffer, Mbox!Delimiter) = {}
  PROVE  buffer # << >> /\ Len(text) \in Nat /\ Streamed(file, Len(file), << >>, Append(mails, buffer), Len(text))
<1> DEFINE p == << left + 1, Len(text) >>
<1>1. /\ text \in Seq(Mbox!Letters) /\ buffer \in Seq(Mbox!Letters)
      /\ Len(text) \in Nat /\ Len(buffer) \in Nat /\ Len(file) \in Nat
      /\ left + Len(buffer) + Len(file) = Len(file) + Len(text)
  BY StreamBuffer
<1>2. file # << >> /\ IsSlice(buffer, left, Len(buffer), text) /\ (\E place : Placed(place, text, mails, left))
  BY StreamBuffer
<1>3. left + Len(buffer) = Len(text) /\ left + 2 <= Len(text)
  BY <1>1, <1>2, StartsWithF, SMT
<1>4. buffer # << >>
  <2>1. Len(buffer) >= 2
    BY <1>1, <1>3, SMT
  <2> QED
    BY <2>1
<1>5. buffer = SubSeq(text, left + 1, Len(text))
  <2>1. IsSlice(SubSeq(text, left + 1, left + Len(buffer)), left, Len(buffer), text)
    BY <1>1, <1>3, Slice
  <2>2. buffer = SubSeq(text, left + 1, left + Len(buffer))
    BY <1>1, <1>2, <2>1, SlicesEqual
  <2> QED
    BY <1>3, <2>2
<1>6. \A s \in Mbox!Starts(text) : s <= left + 1 \/ Len(text) + 1 < s
  <2> SUFFICES ASSUME NEW s \in Mbox!Starts(text) PROVE s <= left + 1 \/ Len(text) + 1 < s
    OBVIOUS
  <2>1. s \in Nat
    BY <1>1, Started
  <2>2. CASE s > left + 1
    <3>1. s # 1
      BY <2>1, <2>2, SMT
    <3>2. s + 1 <= Len(text)
      BY <1>1, <3>1, Started
    <3>3. s + 1 <= left + Len(buffer) /\ left + Len(buffer) <= Len(text)
      <4>1. Len(text) <= Len(text)
        BY <1>1
      <4> QED
        BY <1>3, <3>2, <4>1, Zenon
    <3> QED
      BY <1>1, <1>2, <2>2, <3>3, StreamGap
  <2> QED
    BY <2>1, <2>2, SMT
<1>7. p \in Mbox!Stretches(text) /\ p[1] = left + 1 /\ p[2] = Len(text)
  <2>1. Len(text) \in 1 .. Len(text) /\ left + 1 <= Len(text)
    BY <1>1, <1>3, SMT
  <2>2. p \in Mbox!Starts(text) \X (1 .. Len(text)) /\ p[1] = left + 1 /\ p[2] = Len(text)
    BY <2>1
  <2> HIDE DEF p
  <2>3. \A s \in Mbox!Starts(text) : s <= p[1] \/ p[2] + 1 < s
    BY <1>6, <2>2
  <2> QED
    BY <2>1, <2>2, <2>3, Zenon DEF Mbox!Stretches
<1> HIDE DEF p
<1>8. \E place : Placed(place, text, Append(mails, buffer), Len(text))
  <2>1. PICK old : Placed(old, text, mails, left)
    BY <1>2
  <2>2. left < Len(text)
    BY <1>1, <1>3, SMT
  <2>3. \A s \in Mbox!Starts(text) : s <= left + 1 \/ Len(text) < s
    <3> SUFFICES ASSUME NEW s \in Mbox!Starts(text) PROVE s <= left + 1 \/ Len(text) < s
      OBVIOUS
    <3>1. s \in Nat /\ (s <= left + 1 \/ Len(text) + 1 < s)
      BY <1>1, <1>6, Started
    <3> QED
      BY <1>1, <3>1, SMT
  <2>4. \E place : Placed(place, text, Append(mails, SubSeq(text, p[1], p[2])), Len(text))
    BY <1>1, <1>7, <2>1, <2>2, <2>3, NextPlace
  <2> QED
    BY <1>5, <1>7, <2>4
<1>9. /\ Len(text) + Len(<< >>) + Len(file) = Len(file) + Len(text) /\ Len(file) <= Len(file)
  BY <1>1
<1>10. IsSlice(<< >>, Len(text), Len(<< >>), text)
  BY <1>1 DEF IsSlice
<1>11. Streamed(file, Len(file), << >>, Append(mails, buffer), Len(text))
  BY <1>2, <1>8, <1>9, <1>10, Zenon DEF Streamed
<1> QED
  BY <1>1, <1>4, <1>11

LEMMA SplitTransform ==
  ASSUME Mbox!SplitterAssumption, SplitInv, NEW n \in 1 .. Len(split.file), Mbox!Transform(n)
  PROVE  SplitInv'
<1> DEFINE chunk == SubSeq(split.file, split.taken + 1, split.taken + n)
<1>0. /\ split \in Mbox!Splitter /\ split.file \in Seq(Mbox!Letters) /\ split.taken \in Nat
      /\ split.buffer \in Seq(Mbox!Letters)
  BY SplitFields DEF SplitInv
<1>1. Len(split.file) \in Nat /\ n \in Nat /\ n >= 1 /\ split.taken + n <= Len(split.file)
  BY <1>0, LenProperties DEF Mbox!Transform
<1>a. IsSlice(chunk, split.taken, n, split.file)
  BY <1>0, <1>1, Slice
<1> HIDE DEF chunk
<1>2. chunk \in Seq(Mbox!Letters)
  BY <1>a DEF IsSlice
<1>3. Mbox!From \in Seq(Mbox!Letters) /\ Len(Mbox!From) = 2
  BY DEF Mbox!From, Mbox!Letters
<1>4. split.taken + n \in Nat /\ Mbox!Received(chunk) \in Seq(Mbox!Letters)
  BY <1>0, <1>1, <1>2, <1>3, ConcatProperties DEF Mbox!Received
<1>5. split' = [ split EXCEPT !.taken = split.taken + n, !.first = FALSE, !.buffer = Mbox!Received(chunk) ]
  BY <1>0 DEF Mbox!Transform, chunk, Mbox!Splitter
<1>6. split' \in Mbox!Splitter
  BY <1>0, <1>4, <1>5 DEF Mbox!Splitter
<1>7. /\ split'.file = split.file /\ split'.taken = split.taken + n
      /\ split'.buffer = Mbox!Received(chunk) /\ split'.mails = split.mails
      /\ ~ First' /\ (Ended' <=> Ended)
  BY <1>0, <1>5 DEF Mbox!Splitter, First, Ended
<1>8. CASE First
  <2>1. /\ split.taken = 0 /\ split.buffer = << >> /\ split.mails = << >>
        /\ ~ Ended
    <3>1. /\ split.taken = 0 /\ split.buffer = << >> /\ split.mails = << >>
          /\ Ended => split.file = << >>
      BY <1>8, Zenon DEF SplitInv, SplitFresh
    <3>2. split.file # << >>
      BY <1>1
    <3> QED
      BY <3>1, <3>2
  <2>2. split.taken + n = n /\ (n >= 2 \/ n = Len(split.file)) /\ n <= Len(split.file) /\ n \in Nat \ {0}
    <3>1. n >= 2 \/ n = Len(split.file)
      BY <1>3, <1>8 DEF Mbox!Transform, First
    <3> QED
      BY <1>1, <2>1, <3>1
  <2>3. Mbox!Received(chunk) = IF Mbox!Begins(chunk, Mbox!From) THEN chunk ELSE Mbox!From \o chunk
    BY <1>2, <1>3, <1>8, <2>1, ConcatProperties, ConcatEmptySeq DEF Mbox!Received, First
  <2>4. Streamed(split.file, n, IF Mbox!Begins(chunk, Mbox!From) THEN chunk ELSE Mbox!From \o chunk, << >>, 0)
    BY <1>0, <1>a, <2>1, <2>2, StreamBegins
  <2>5. Streamed(split'.file, split'.taken, split'.buffer, split'.mails, 0)
    BY <1>7, <2>1, <2>2, <2>3, <2>4
  <2>6. 0 + 1 \in Mbox!Starts(Mbox!TextOf(split'.file))
    BY DEF Mbox!Starts
  <2>7. 0 \in Nat
    OBVIOUS
  <2>8. SplitStarted'
    BY <1>7, <2>1, <2>5, <2>6, <2>7, Zenon DEF SplitStarted
  <2> QED
    BY <1>6, <1>7, <2>8, Zenon DEF SplitInv
<1>9. CASE ~ First
  <2>1. PICK left \in Nat :
          /\ Streamed(split.file, split.taken, split.buffer, split.mails, left)
          /\ IF Ended THEN left = Len(Mbox!TextOf(split.file))
             ELSE left + 1 \in Mbox!Starts(Mbox!TextOf(split.file))
    BY <1>9, Zenon DEF SplitInv, SplitStarted
  <2>2. ~ Ended
    <3> SUFFICES ASSUME Ended PROVE FALSE
      OBVIOUS
    <3>1. Streamed(split.file, split.taken, split.buffer, split.mails, Len(Mbox!TextOf(split.file)))
      BY <2>1
    <3> DEFINE b == Len(split.buffer)  f == Len(split.file)  t == split.taken
    <3>2. t = f + b /\ t + n <= f /\ b \in Nat /\ f \in Nat /\ t \in Nat
      BY <1>0, <1>1, <3>1, StreamOver, Zenon
    <3> HIDE DEF b, f, t
    <3> QED
      BY <1>1, <3>2, SMT
  <2>3. Mbox!Received(chunk) = split.buffer \o chunk
    BY <1>0, <1>9, SplitFields DEF Mbox!Received, First
  <2>4. Streamed(split.file, split.taken + n, split.buffer \o chunk, split.mails, left)
    BY <1>0, <1>1, <1>a, <2>1, StreamReads
  <2>5. Streamed(split'.file, split'.taken, split'.buffer, split'.mails, left)
    BY <1>7, <2>3, <2>4
  <2> QED
    BY <1>6, <1>7, <2>1, <2>2, <2>5, Zenon DEF SplitInv, SplitStarted
<1> QED
  BY <1>8, <1>9

LEMMA SplitCut == ASSUME Mbox!SplitterAssumption, SplitInv, Mbox!Cut PROVE SplitInv'
<1>0. /\ split \in Mbox!Splitter /\ split.file \in Seq(Mbox!Letters) /\ split.taken \in Nat
      /\ split.buffer \in Seq(Mbox!Letters) /\ split.mails \in Seq(Seq(Mbox!Letters))
  BY SplitFields DEF SplitInv
<1>1. PICK at \in Mbox!Occurrences(split.buffer, Mbox!Delimiter) :
        /\ \A other \in Mbox!Occurrences(split.buffer, Mbox!Delimiter) : at <= other
        /\ LET email == SubSeq(split.buffer, 1, at - 1)
           IN split' = [ split EXCEPT !.buffer = SubSeq(@, at + 1, Len(@)),
                           !.mails = IF email = << >> THEN @ ELSE Append(@, email) ]
  BY DEF Mbox!Cut
<1>2. Len(split.buffer) \in Nat /\ at + 2 <= Len(split.buffer) /\ at \in Nat /\ split.buffer # << >>
  BY <1>0, Delimiters, LenProperties
<1>3. ~ First
  BY <1>2, Zenon DEF SplitInv, SplitFresh
<1>4. PICK left \in Nat :
        /\ Streamed(split.file, split.taken, split.buffer, split.mails, left)
        /\ IF Ended THEN left = Len(Mbox!TextOf(split.file))
           ELSE left + 1 \in Mbox!Starts(Mbox!TextOf(split.file))
  BY <1>3, Zenon DEF SplitInv, SplitStarted
<1>5. ~ Ended
  <2> SUFFICES ASSUME Ended PROVE FALSE
    OBVIOUS
  <2>1. Streamed(split.file, split.taken, split.buffer, split.mails, Len(Mbox!TextOf(split.file)))
    BY <1>4
  <2> DEFINE b == Len(split.buffer)  f == Len(split.file)  t == split.taken
  <2>2. t = f + b /\ t <= f /\ f \in Nat /\ b \in Nat /\ at + 2 <= b /\ at \in Nat
    BY <1>0, <1>2, <2>1, StreamOver, Zenon
  <2> HIDE DEF b, f, t
  <2> QED
    BY <2>2, SMT
<1> DEFINE email == SubSeq(split.buffer, 1, at - 1)
           rest == SubSeq(split.buffer, at + 1, Len(split.buffer))
<1>6. /\ email \in Seq(Mbox!Letters) /\ email # << >> /\ rest \in Seq(Mbox!Letters)
      /\ Streamed(split.file, split.taken, rest, Append(split.mails, email), left + at)
      /\ left + at \in Nat /\ (left + at) + 1 \in Mbox!Starts(Mbox!TextOf(split.file))
  BY <1>0, <1>1, <1>4, <1>5, StreamCut
<1>7. split' = [ split EXCEPT !.buffer = rest, !.mails = Append(split.mails, email) ]
  BY <1>0, <1>1, <1>6 DEF Mbox!Splitter
<1> HIDE DEF email, rest
<1>8. Append(split.mails, email) \in Seq(Seq(Mbox!Letters))
  BY <1>0, <1>6, AppendProperties
<1>9. split' \in Mbox!Splitter
  BY <1>0, <1>6, <1>7, <1>8 DEF Mbox!Splitter
<1>10. /\ split'.file = split.file /\ split'.taken = split.taken /\ (First' <=> First) /\ (Ended' <=> Ended)
       /\ split'.buffer = rest /\ split'.mails = Append(split.mails, email)
  BY <1>0, <1>7 DEF Mbox!Splitter, First, Ended
<1>11. Streamed(split'.file, split'.taken, split'.buffer, split'.mails, left + at)
  BY <1>6, <1>10
<1> QED
  BY <1>3, <1>5, <1>6, <1>9, <1>10, <1>11, Zenon DEF SplitInv, SplitStarted

LEMMA SplitFlush == ASSUME Mbox!SplitterAssumption, SplitInv, Mbox!Flush PROVE SplitInv'
<1>0. /\ split \in Mbox!Splitter /\ split.file \in Seq(Mbox!Letters) /\ split.taken \in Nat
      /\ split.buffer \in Seq(Mbox!Letters) /\ split.mails \in Seq(Seq(Mbox!Letters))
  BY SplitFields DEF SplitInv
<1> DEFINE out == IF split.buffer = << >> THEN split.mails ELSE Append(split.mails, split.buffer)
<1>1. /\ split.taken = Len(split.file)
      /\ Mbox!Occurrences(split.buffer, Mbox!Delimiter) = {}
      /\ split' = [ split EXCEPT !.done = TRUE, !.buffer = << >>, !.mails = out ]
  BY <1>0 DEF Mbox!Flush, Mbox!Splitter
<1>2. ~ Ended
  BY Zenon DEF Mbox!Flush, Ended
<1>3. out \in Seq(Seq(Mbox!Letters)) /\ << >> \in Seq(Mbox!Letters)
  BY <1>0, AppendProperties
<1> HIDE DEF out
<1>4. split' \in Mbox!Splitter
  BY <1>0, <1>1, <1>3 DEF Mbox!Splitter
<1>5. /\ split'.file = split.file /\ split'.taken = split.taken /\ (First' <=> First) /\ Ended'
      /\ split'.buffer = << >> /\ split'.mails = out
  BY <1>0, <1>1 DEF Mbox!Splitter, First, Ended
<1>6. CASE First
  <2>1. split.taken = 0 /\ split.buffer = << >> /\ split.mails = << >>
    BY <1>6, Zenon DEF SplitInv, SplitFresh
  <2>2. split.file = << >>
    BY <1>0, <1>1, <2>1, EmptySeq
  <2>3. out = << >>
    BY <2>1 DEF out
  <2> QED
    BY <1>4, <1>5, <1>6, <2>1, <2>2, <2>3, Zenon DEF SplitInv, SplitFresh
<1>7. CASE ~ First
  <2>1. PICK left \in Nat :
          /\ Streamed(split.file, split.taken, split.buffer, split.mails, left)
          /\ IF Ended THEN left = Len(Mbox!TextOf(split.file))
             ELSE left + 1 \in Mbox!Starts(Mbox!TextOf(split.file))
    BY <1>7, Zenon DEF SplitInv, SplitStarted
  <2> DEFINE text == Mbox!TextOf(split.file)
  <2>2. /\ split.buffer # << >> /\ Len(text) \in Nat
        /\ Streamed(split.file, Len(split.file), << >>, Append(split.mails, split.buffer), Len(text))
    BY <1>0, <1>1, <1>2, <2>1, StreamEnds
  <2>3. out = Append(split.mails, split.buffer)
    BY <2>2 DEF out
  <2>4. Streamed(split'.file, split'.taken, split'.buffer, split'.mails, Len(text)) /\ text = Mbox!TextOf(split'.file)
    BY <1>1, <1>5, <2>2, <2>3
  <2> QED
    BY <1>4, <1>5, <1>7, <2>2, <2>4, Zenon DEF SplitInv, SplitStarted
<1> QED
  BY <1>6, <1>7

LEMMA SplitNext == Mbox!SplitterAssumption /\ SplitInv /\ Mbox!Next => SplitInv'
  BY SplitTransform, SplitCut, SplitFlush DEF Mbox!Next

LEMMA StreamAgrees ==
  ASSUME NEW text \in Seq(Mbox!Letters), NEW mails, NEW place, NEW upto \in Nat, Placed(place, text, mails, upto),
         NEW over \in BOOLEAN, over => \A p \in Mbox!Stretches(text) : p[1] <= upto
  PROVE  /\ place \in [ DOMAIN mails -> Mbox!Stretches(text) ]
         /\ \A k \in DOMAIN mails : mails[k] = SubSeq(text, place[k][1], place[k][2])
         /\ \A j, k \in DOMAIN mails : j < k => place[j][1] < place[k][1]
         /\ \A p \in Mbox!Stretches(text) :
               \/ \E k \in DOMAIN mails : place[k] = p
               \/ ~ over /\ \A k \in DOMAIN mails : place[k][1] < p[1]
<1>1. /\ place \in [ DOMAIN mails -> Mbox!Stretches(text) ]
      /\ \A k \in DOMAIN mails : mails[k] = SubSeq(text, place[k][1], place[k][2])
      /\ \A j, k \in DOMAIN mails : j < k => place[j][1] < place[k][1]
  BY DEF Placed
<1>2. \A q \in Mbox!Stretches(text) : q[1] \in Nat
  BY Started, SMT DEF Mbox!Stretches
<1>3. ASSUME NEW p \in Mbox!Stretches(text), ~ \E k \in DOMAIN mails : place[k] = p
      PROVE  ~ over /\ \A k \in DOMAIN mails : place[k][1] < p[1]
  <2>1. ~ (p[1] <= upto)
    BY <1>3, Zenon DEF Placed
  <2>2. ASSUME NEW k \in DOMAIN mails PROVE place[k][1] < p[1]
    <3>1. place[k][1] <= upto /\ place[k] \in Mbox!Stretches(text)
      BY DEF Placed
    <3> QED
      BY <1>2, <2>1, <3>1, SMT
  <2> QED
    BY <2>1, <2>2
<1> QED
  BY <1>1, <1>3, Zenon

LEMMA SplitKeeps == Mbox!SplitterAssumption /\ SplitInv => Mbox!SplitAgrees
<1> SUFFICES ASSUME Mbox!SplitterAssumption, SplitInv PROVE Mbox!SplitAgrees
  OBVIOUS
<1> DEFINE text == Mbox!TextOf(split.file)
<1>0. /\ split.file \in Seq(Mbox!Letters) /\ split.taken \in Nat /\ split.buffer \in Seq(Mbox!Letters)
      /\ text \in Seq(Mbox!Letters) /\ split.done \in BOOLEAN /\ (split.done => Ended)
  BY SplitFields, Texts DEF SplitInv, Ended
<1>1. ASSUME NEW place, NEW upto \in Nat, Placed(place, text, split.mails, upto),
             split.done => \A p \in Mbox!Stretches(text) : p[1] <= upto
      PROVE  Mbox!SplitAgrees
  <2> HIDE DEF text
  <2>1. /\ place \in [ DOMAIN split.mails -> Mbox!Stretches(text) ]
        /\ \A k \in DOMAIN split.mails : split.mails[k] = SubSeq(text, place[k][1], place[k][2])
        /\ \A j, k \in DOMAIN split.mails : j < k => place[j][1] < place[k][1]
        /\ \A p \in Mbox!Stretches(text) :
              \/ \E k \in DOMAIN split.mails : place[k] = p
              \/ ~ split.done /\ \A k \in DOMAIN split.mails : place[k][1] < p[1]
    BY <1>0, <1>1, StreamAgrees
  <2> QED
    BY <2>1, Zenon DEF Mbox!SplitAgrees, text
<1>2. CASE First
  <2>1. split.mails = << >> /\ (Ended => split.file = << >>)
    BY <1>2, Zenon DEF SplitInv, SplitFresh
  <2>2. PICK place : Placed(place, text, << >>, 0)
    BY <1>0, EmptyPlace
  <2>3. split.file = << >> => Mbox!Stretches(text) = {}
    <3> SUFFICES ASSUME split.file = << >>, NEW p \in Mbox!Stretches(text) PROVE FALSE
      OBVIOUS
    <3>1. text = << >>
      BY DEF Mbox!TextOf
    <3> HIDE DEF text
    <3>2. p[2] \in 1 .. Len(text)
      BY DEF Mbox!Stretches
    <3> QED
      BY <3>1, <3>2
  <2>4. split.done => \A p \in Mbox!Stretches(text) : p[1] <= 0
    BY <1>0, <2>1, <2>3
  <2>5. Placed(place, text, split.mails, 0)
    BY <2>1, <2>2
  <2> QED
    BY <1>1, <2>4, <2>5
<1>3. CASE ~ First
  <2>1. PICK left \in Nat :
          /\ Streamed(split.file, split.taken, split.buffer, split.mails, left)
          /\ IF Ended THEN left = Len(text) ELSE left + 1 \in Mbox!Starts(text)
    BY <1>3, Zenon DEF SplitInv, SplitStarted
  <2>2. PICK place : Placed(place, text, split.mails, left)
    BY <2>1 DEF Streamed
  <2>3. Ended => \A p \in Mbox!Stretches(text) : p[1] <= left
    <3> SUFFICES ASSUME Ended, NEW p \in Mbox!Stretches(text) PROVE p[1] <= left
      OBVIOUS
    <3>1. left = Len(text)
      BY <2>1
    <3> HIDE DEF text
    <3>2. p[1] <= p[2] /\ p[2] \in 1 .. Len(text) /\ p[1] \in Nat /\ Len(text) \in Nat
      BY <1>0, Started, LenProperties, SMT DEF Mbox!Stretches
    <3> QED
      BY <3>1, <3>2, SMT
  <2> QED
    BY <1>0, <1>1, <2>2, <2>3
<1> QED
  BY <1>2, <1>3

-----------------------------------------------------------------------------
(* The connector that the factory made.                                      *)

LEMMA SameConnector == [Next]_vars => connector' = connector
  BY Zenon DEF Next, LiveStep, UploadStep, MboxStep, vars

\* An uploaded file is no feed.
LEMMA FeedOfFiles ==
  ASSUME connector \in { "upload", "mbox" } PROVE There = {} /\ Passed = {} /\ Archived = {} /\ Skipped = {}
  BY Zenon DEF There, Passed, Archived, Skipped

\* The imports, whatever fails anywhere.
FilesInv == connector = "upload" => UploadInv

LEMMA InitFiles == Init => FilesInv
  BY ConnectorAssumption, UploadInit, Zenon DEF Init, FilesInv

LEMMA UploadSame == UploadInv /\ UNCHANGED Upload!vars => UploadInv'
  BY DEF Upload!vars, UploadInv, ImportKept, Marked, Old

LEMMA NextFiles == FilesInv /\ [Next]_vars => FilesInv'
<1> SUFFICES ASSUME FilesInv, [Next]_vars, connector' = "upload" PROVE UploadInv'
  BY DEF FilesInv
<1>1. connector = "upload" /\ UploadInv
  BY SameConnector DEF FilesInv
<1>2. Upload!Next \/ UNCHANGED Upload!vars
  BY <1>1, Zenon DEF Next, LiveStep, UploadStep, MboxStep, vars, fileVars, Upload!vars
<1> QED
  BY <1>1, <1>2, ConnectorAssumption, UploadNext, UploadSame

\* However imports, their ends, their deaths and restarts and the sweeps of stale
\* copies interleave, and whoever is given a process id again: no working copy is
\* removed that an import reads (PSTConnector, EMLConnector, tempFileJanitor).
THEOREM CopyKeptAlways == Spec => []CopyKept
<1>1. FilesInv => CopyKept
  BY UploadKeeps DEF FilesInv, CopyKept
<1> QED
  BY <1>1, InitFiles, NextFiles, PTL DEF Spec

\* The stream, whatever fails elsewhere.
StreamInv == connector = "mbox" => SplitInv

LEMMA InitStream == Init => StreamInv
  BY ConnectorAssumption, SplitInit, Zenon DEF Init, StreamInv

LEMMA SplitSame == SplitInv /\ UNCHANGED split => SplitInv'
  BY Zenon DEF SplitInv, SplitFresh, SplitStarted, First, Ended

LEMMA NextStream == StreamInv /\ [Next]_vars => StreamInv'
<1> SUFFICES ASSUME StreamInv, [Next]_vars, connector' = "mbox" PROVE SplitInv'
  BY DEF StreamInv
<1>1. connector = "mbox" /\ SplitInv
  BY SameConnector DEF StreamInv
<1>2. Mbox!Next \/ UNCHANGED split
  BY <1>1, Zenon DEF Next, LiveStep, UploadStep, MboxStep, vars
<1> QED
  BY <1>1, <1>2, ConnectorAssumption, SplitNext, SplitSame

\* However an Mbox file falls into chunks, with a delimiter across two of them or
\* several in one: its messages come out once each, whole and in order, and all of
\* them once the stream has ended (MboxSplitter in MboxConnector.ts).
THEOREM SplitAgreesAlways == Spec => []SplitAgrees
<1>1. StreamInv => SplitAgrees
  BY ConnectorAssumption, SplitKeeps DEF StreamInv, SplitAgrees
<1> QED
  BY <1>1, InitStream, NextStream, PTL DEF Spec

\* The mailboxes, whatever fails.
LiveInv ==
    /\ connector = "gmail" => GmailInv
    /\ connector = "graph" => GraphInv
    /\ connector = "imap" => ImapInv

LEMMA InitLive == Init => LiveInv /\ Feed!Init
<1> SUFFICES ASSUME Init PROVE LiveInv /\ Feed!Init
  OBVIOUS
<1>1. CASE connector = "gmail"
  <2>1. GmailInv /\ GmailFeed!Init
    BY <1>1, ConnectorAssumption, GmailInit, Zenon DEF Init
  <2>2. There = Gmail!There /\ Passed = Gmail!Passed /\ Archived = archived /\ Skipped = {}
    BY <1>1, Zenon DEF There, Passed, Archived, Skipped
  <2> QED
    BY <1>1, <2>1, <2>2 DEF LiveInv, GmailFeed!Init, Feed!Init
<1>2. CASE connector = "graph"
  <2>1. GraphInv /\ GraphFeed!Init
    BY <1>2, ConnectorAssumption, GraphInit, Zenon DEF Init
  <2>2. There = Graph!There /\ Passed = Graph!Passed /\ Archived = archived /\ Skipped = {}
    BY <1>2, Zenon DEF There, Passed, Archived, Skipped
  <2> QED
    BY <1>2, <2>1, <2>2 DEF LiveInv, GraphFeed!Init, Feed!Init
<1>3. CASE connector = "imap"
  <2>1. ImapInv /\ ImapFeed!Init
    BY <1>3, ConnectorAssumption, ImapInit, Zenon DEF Init
  <2>2. There = Imap!There /\ Passed = Imap!Passed /\ Archived = archived /\ Skipped = skipped
    BY <1>3, Zenon DEF There, Passed, Archived, Skipped
  <2> QED
    BY <1>3, <2>1, <2>2 DEF LiveInv, ImapFeed!Init, Feed!Init
<1>4. CASE connector \in { "upload", "mbox" }
  BY <1>4, FeedOfFiles DEF LiveInv, Feed!Init
<1> QED
  BY <1>1, <1>2, <1>3, <1>4, Zenon DEF Init

\* Where the connector itself does nothing.
LEMMA LiveStutter ==
  ASSUME LiveInv, UNCHANGED << connector, mail, archived, stored, pc, run, skipped >>
  PROVE  LiveInv' /\ UNCHANGED Feed!vars
<1>1. connector = "gmail" => GmailInv'
  BY DEF LiveInv, GmailInv, GmailTypes, GmailKept, GmailCovered, GmailPhases, Paged, Full, Failed
<1>2. connector = "graph" => GraphInv'
  BY DEF LiveInv, GraphInv, GraphTypes, GraphTimes, GraphKept, GraphRunKept, PassedBy, GraphCovered, GraphPhases,
     Paged, Failed
<1>3. connector = "imap" => ImapInv'
  <2> SUFFICES ASSUME ImapInv PROVE ImapInv'
    BY DEF LiveInv
  <2>1. ImapTypes' /\ ImapUids'
    BY DEF ImapInv, ImapTypes, ImapUids
  <2>2. ImapKept'
    BY Zenon DEF ImapInv, ImapKept, Safe
  <2>3. ImapPhases'
    BY Zenon DEF ImapInv, ImapPhases, ImapRunKept, ImapBatch, ImapWindow, Safe, Failed, Imap!WindowEnd
  <2> QED
    BY <2>1, <2>2, <2>3 DEF ImapInv
<1>4. UNCHANGED Feed!vars
  BY Zenon DEF Feed!vars, There, Passed, Archived, Skipped, Gmail!There, Gmail!Passed, Graph!There, Graph!Passed,
     Imap!There, Imap!Passed
<1> QED
  BY <1>1, <1>2, <1>3, <1>4 DEF LiveInv

LEMMA NextLive ==
  ASSUME LiveInv, [Next]_vars
  PROVE  LiveInv' /\ [Feed!Next]_Feed!vars
<1>0. connector' = connector
  BY SameConnector
<1>1. CASE UNCHANGED vars
  <2>1. UNCHANGED << connector, mail, archived, stored, pc, run, skipped >>
    BY <1>1 DEF vars, liveVars
  <2> QED
    BY <2>1, LiveStutter
<1>2. CASE connector = "gmail" /\ Gmail!Next
  <2>1. GmailInv' /\ GmailFeedKept
    BY <1>2, ConnectorAssumption, GmailNext DEF LiveInv
  <2>2. /\ There = Gmail!There /\ Passed = Gmail!Passed /\ Archived = archived
        /\ There' = Gmail!There' /\ Passed' = Gmail!Passed' /\ Archived' = archived'
        /\ Skipped = {} /\ Skipped' = {}
    BY <1>0, <1>2, Zenon DEF There, Passed, Archived, Skipped
  <2>3. [Feed!Next]_Feed!vars
    BY <2>1, <2>2, Zenon DEF GmailFeedKept, GmailFeed!vars, Feed!vars, GmailFeed!Next, Feed!Next,
       GmailFeed!Arrive, Feed!Arrive,
       GmailFeed!Vanish, Feed!Vanish, GmailFeed!Archive, Feed!Archive, GmailFeed!Advance, Feed!Advance,
       GmailFeed!Skip, Feed!Skip
  <2>4. LiveInv'
    BY <1>0, <1>2, <2>1 DEF LiveInv
  <2> QED
    BY <2>3, <2>4
<1>3. CASE connector = "graph" /\ Graph!Next
  <2>1. GraphInv' /\ GraphFeedKept
    BY <1>3, ConnectorAssumption, GraphNext DEF LiveInv
  <2>2. /\ There = Graph!There /\ Passed = Graph!Passed /\ Archived = archived
        /\ There' = Graph!There' /\ Passed' = Graph!Passed' /\ Archived' = archived'
        /\ Skipped = {} /\ Skipped' = {}
    BY <1>0, <1>3, Zenon DEF There, Passed, Archived, Skipped
  <2>3. [Feed!Next]_Feed!vars
    BY <2>1, <2>2, Zenon DEF GraphFeedKept, GraphFeed!vars, Feed!vars, GraphFeed!Next, Feed!Next,
       GraphFeed!Arrive, Feed!Arrive,
       GraphFeed!Vanish, Feed!Vanish, GraphFeed!Archive, Feed!Archive, GraphFeed!Advance, Feed!Advance,
       GraphFeed!Skip, Feed!Skip
  <2>4. LiveInv'
    BY <1>0, <1>3, <2>1 DEF LiveInv
  <2> QED
    BY <2>3, <2>4
<1>4. CASE connector = "imap" /\ Imap!Next
  <2>1. ImapInv' /\ ImapFeedKept
    BY <1>4, ConnectorAssumption, ImapNext DEF LiveInv
  <2>2. /\ There = Imap!There /\ Passed = Imap!Passed /\ Archived = archived
        /\ There' = Imap!There' /\ Passed' = Imap!Passed' /\ Archived' = archived'
        /\ Skipped = skipped /\ Skipped' = skipped'
    BY <1>0, <1>4, Zenon DEF There, Passed, Archived, Skipped
  <2>3. [Feed!Next]_Feed!vars
    BY <2>1, <2>2, Zenon DEF ImapFeedKept, ImapFeed!vars, Feed!vars, ImapFeed!Next, Feed!Next, ImapFeed!Arrive,
       Feed!Arrive,
       ImapFeed!Vanish, Feed!Vanish, ImapFeed!Archive, Feed!Archive, ImapFeed!Advance, Feed!Advance,
       ImapFeed!Skip, Feed!Skip
  <2>4. LiveInv'
    BY <1>0, <1>4, <2>1 DEF LiveInv
  <2> QED
    BY <2>3, <2>4
<1>5. CASE UploadStep \/ MboxStep
  <2>1. connector \in { "upload", "mbox" } /\ connector' \in { "upload", "mbox" }
    BY <1>0, <1>5, Zenon DEF UploadStep, MboxStep
  <2>2. /\ There = {} /\ Passed = {} /\ Archived = {} /\ Skipped = {}
        /\ There' = {} /\ Passed' = {} /\ Archived' = {} /\ Skipped' = {}
    BY <2>1, Zenon DEF There, Passed, Archived, Skipped
  <2> QED
    BY <2>1, <2>2 DEF LiveInv, Feed!vars
<1> QED
  BY <1>1, <1>2, <1>3, <1>4, <1>5, Zenon DEF Next, LiveStep

\* Whatever fails, expires, moves or is deleted, and wherever a run stops, every
\* step of a connector is a step of the abstract feed, or none: the sync state
\* that process-mailbox stores moves past a message only when it is in the archive,
\* or an IMAP folder failed when it had listed the message (the fetchEmails of the
\* connectors, process-mailbox.processor.ts).
THEOREM ImplementsFeed == Spec => Feed!Spec
<1>1. Init => LiveInv /\ Feed!Init
  BY InitLive
<1>2. LiveInv /\ [Next]_vars => LiveInv' /\ [Feed!Next]_Feed!vars
  BY NextLive
<1> QED
  BY <1>1, <1>2, PTL DEF Spec, Feed!Spec

\* What the feed promises by itself: what has been passed is archived, excused or
\* was skipped.
LEMMA FeedLosesNoMore == Feed!Spec => [](Passed \subseteq Archived \cup Excused \cup Skipped)
<1>1. Feed!Init => Passed \subseteq Archived \cup Excused \cup Skipped
  BY DEF Feed!Init
<1>2. Passed \subseteq Archived \cup Excused \cup Skipped /\ [Feed!Next]_Feed!vars
          => (Passed \subseteq Archived \cup Excused \cup Skipped)'
  BY DEF Feed!Next, Feed!Arrive, Feed!Vanish, Feed!Archive, Feed!Advance, Feed!Skip, Feed!vars
<1> QED
  BY <1>1, <1>2, PTL DEF Feed!Spec

\* Only a folder of an IMAP account that fails while its messages are listed or
\* fetched skips anything.
LEMMA OnlyImapSkips == Spec => []("fetchFail" \notin ImapEnv => Skipped = {})
<1> DEFINE NoSkip == "fetchFail" \notin ImapEnv => (connector = "imap" => skipped = {})
<1>1. Init => NoSkip
  BY Zenon DEF Init, Imap!Init
<1>2. NoSkip /\ [Next]_vars => NoSkip'
  <2> SUFFICES ASSUME "fetchFail" \notin ImapEnv, connector = "imap", skipped = {}, [Next]_vars
               PROVE  skipped' = {}
    BY SameConnector
  <2>1. Imap!Next \/ UNCHANGED skipped
    BY Zenon DEF Next, LiveStep, UploadStep, MboxStep, vars, liveVars
  <2>2. Imap!Next => UNCHANGED skipped
    BY Zenon DEF Imap!Next, Imap!RunStep, Imap!Start, Imap!ListFolders, Imap!ListFails, Imap!Abort,
       Imap!OpenFolder, Imap!NoFolderLeft, Imap!Envelopes, Imap!WindowDone, Imap!FolderDone,
       Imap!FolderFails, Imap!FolderShut, Imap!EnvelopesFail, Imap!FetchFails, Imap!Strikes,
       Imap!MessageStep, Imap!Skip, Imap!Archive, Imap!ArchiveFails, Imap!Finish, Imap!Deliver,
       Imap!Vanish, Imap!Crash
  <2> QED
    BY <2>1, <2>2
<1>3. NoSkip => ("fetchFail" \notin ImapEnv => Skipped = {})
  BY Zenon DEF Skipped
<1> QED
  BY <1>1, <1>2, <1>3, PTL DEF Spec

\* The comment on the counting of failures in process-mailbox holds of every
\* connector, but for the IMAP folder that fails behind its envelopes, the one that
\* the run Connectors_imap finds: what a sync state has moved past without an
\* archived copy, such a folder had listed when it failed, and where none fails so,
\* nothing is lost (process-mailbox.processor.ts).
THEOREM NothingLostAlways ==
  Spec => [](/\ Passed \subseteq Archived \cup Excused \cup Skipped
             /\ "fetchFail" \notin ImapEnv => NothingLost)
<1>1. (Passed \subseteq Archived \cup Excused \cup Skipped) /\ ("fetchFail" \notin ImapEnv => Skipped = {})
          => ("fetchFail" \notin ImapEnv => NothingLost)
  BY DEF NothingLost
<1> QED
  BY <1>1, ImplementsFeed, FeedLosesNoMore, OnlyImapSkips, PTL
=============================================================================
