------------------------- MODULE EmailArchiveProofs -------------------------
(***************************************************************************)
(* What archiving and deleting promise, for any number of messages, with   *)
(* any keys, paths and attachments, and any faults: a row's file is that   *)
(* message's, a mailbox has one row per message, a job one record per      *)
(* attachment, a success all its attachments.  And as long as deletions    *)
(* keep away from archiving and a record is deleted with its file, nothing *)
(* another email needs is ever taken.                                      *)
(***************************************************************************)
EXTENDS EmailArchive, FiniteSetTheorems, TLAPS

-----------------------------------------------------------------------------
(* Types                                                                   *)

LEMMA Constants ==
    /\ NoRow \notin Deliveries
    /\ \A d \in Deliveries :
         /\ ContentOf[d] \in Contents /\ ContentOf[d] # NoContent
         /\ MailboxOf[d] \in Mailboxes
         /\ PathOf[d] \in Paths /\ OwnPath(d) \in Paths
         /\ PartsOf[ContentOf[d]] \subseteq Parts
    /\ 0 \in 0 .. Budget
  BY ConstantsAssumption DEF Contents, Mailboxes, Paths, Parts

LEMMA InitTypeOK == Init => TypeOK
  BY Constants DEF Init, TypeOK, Active, PartPc, DelPc

\* Who waits for an attachment waits for the promise of a delivery.
Waits == \A d \in Deliveries, h \in Parts : part[d][h] = "await" => promise[d][h] \in Deliveries

\* What archiving, its attachments and a deletion leave alone.
LEMMA PartFrame ==
    ASSUME NEW d \in Deliveries, NEW h \in Parts, PartNext(d, h)
    PROVE  UNCHANGED << given, archiveVars, rows, objects, delVars >>
  BY DEF PartNext, PartStart, PartLookup, PartCreate, PartAwait, PartLink, PartFail

LEMMA DelFrame ==
    ASSUME NEW d \in Deliveries, DelNext(d)
    PROVE  UNCHANGED << given, archiveVars, partVars >>
  BY DEF DelNext, DelStart, DelList, DelUnlink, DelCount, DelFile, DelRecord, DelEmlCount,
         DelEmlFile, DelDocument, DelRow, DelFail

Gates(d) == Start(d) \/ Gate(d) \/ HashSelf(d) \/ HashOther(d)
Stores(d) == Put(d) \/ Adopt(d) \/ PutOwn(d)
Inserts(d) == Insert(d) \/ RefInsert(d) \/ RefLinks(d) \/ RefCopy(d)
Ends(d) == PartsDone(d) \/ Fail(d)

LEMMA NextCases ==
    Next => \/ \E d \in Deliveries : \/ Gates(d) \/ Stores(d) \/ Inserts(d) \/ Ends(d)
                                     \/ DelNext(d) \/ \E h \in Parts : PartNext(d, h)
            \/ \E b \in Mailboxes : Crash(b)
  BY DEF Next, ArchiveNext, Gates, Stores, Inserts, Ends

LEMMA ArchiveFrame ==
    ASSUME NEW d \in Deliveries, Gates(d) \/ Stores(d) \/ Inserts(d) \/ Ends(d)
    PROVE  UNCHANGED << given, partVars, attVars, delVars >>
  BY DEF Gates, Stores, Inserts, Ends, Start, Gate, HashSelf, HashOther, Put, Adopt, PutOwn, Insert,
         RefInsert, RefLinks, RefCopy, PartsDone, Fail

LEMMA SetPartGives ==
    ASSUME TypeOK, NEW d \in Deliveries, NEW h \in Parts, NEW step \in PartPc, SetPart(d, h, step)
    PROVE  /\ part' \in [Deliveries -> [Parts -> PartPc]]
           /\ part'[d][h] = step
           /\ \A e \in Deliveries, g \in Parts : e # d \/ g # h => part'[e][g] = part[e][g]
  BY DEF TypeOK, SetPart

LEMMA ResolvedGives ==
    ASSUME TypeOK, NEW d \in Deliveries, NEW h \in Parts, NEW id \in AttachmentIds \cup {NoAttachment},
           Resolved(d, h, id)
    PROVE  /\ partId' \in [Deliveries -> [Parts -> AttachmentIds \cup {NoAttachment}]]
           /\ partId'[d][h] = id
           /\ \A e \in Deliveries, g \in Parts : e # d \/ g # h => partId'[e][g] = partId[e][g]
  BY DEF TypeOK, Resolved

\* What asking for an attachment does to the job's cache.
LEMMA StartTypes ==
    ASSUME TypeOK, NEW d \in Deliveries, NEW h \in Parts, PartStart(d, h)
    PROVE  /\ cache' \in [Mailboxes -> [Parts -> Deliveries \cup {NoRow}]]
           /\ torn' \subseteq Mailboxes \X Parts
           /\ \E e \in Deliveries : promise' = [promise EXCEPT ![d][h] = e]
<1> DEFINE b == MailboxOf[d]
<1>0. b \in Mailboxes /\ cache[b] \in [Parts -> Deliveries \cup {NoRow}]
  BY Constants DEF TypeOK
<1>1. CASE h \in Cached(b)
  <2>1. cache[b][h] \in Deliveries
    BY <1>0, <1>1 DEF Cached
  <2> QED
    BY <1>1, <2>1 DEF PartStart, TypeOK
<1>2. CASE h \notin Cached(b)
  <2>1. PICK gone \in Evicted(b) :
          /\ cache' = [cache EXCEPT ![b] =
                [g \in Parts |-> IF g = h THEN d ELSE IF g \in gone THEN NoRow ELSE cache[b][g]]]
          /\ torn' = torn \cup { << b, g >> : g \in { g \in gone : part[cache[b][g]][g] \in { "lookup", "create" } } }
    BY <1>2 DEF PartStart
  <2>2. gone \subseteq Parts
    BY DEF Evicted, Cached
  <2>3. [g \in Parts |-> IF g = h THEN d ELSE IF g \in gone THEN NoRow ELSE cache[b][g]]
          \in [Parts -> Deliveries \cup {NoRow}]
    BY <1>0
  <2>4. cache' \in [Mailboxes -> [Parts -> Deliveries \cup {NoRow}]]
    BY <1>0, <2>1, <2>3 DEF TypeOK
  <2>5. torn' \subseteq Mailboxes \X Parts
    BY <1>0, <2>1, <2>2 DEF TypeOK
  <2>6. promise' = [promise EXCEPT ![d][h] = d]
    BY <1>2 DEF PartStart
  <2> QED
    BY <2>4, <2>5, <2>6
<1> QED
  BY <1>1, <1>2

\* The step an attachment takes.
LEMMA PartSteps ==
    ASSUME TypeOK, NEW d \in Deliveries, NEW h \in Parts, PartNext(d, h)
    PROVE  \E step \in PartPc : SetPart(d, h, step)
<1>1. PartStart(d, h) => SetPart(d, h, "lookup") \/ SetPart(d, h, "await")
  BY DEF PartStart
<1>2. PartLookup(d, h) => SetPart(d, h, "ready") \/ SetPart(d, h, "create")
  BY DEF PartLookup
<1>3. PartCreate(d, h) => SetPart(d, h, "ready")
  BY DEF PartCreate
<1>4. PartAwait(d, h) => SetPart(d, h, "ready") \/ SetPart(d, h, "failed")
  BY DEF PartAwait
<1>5. PartLink(d, h) => SetPart(d, h, "linked") \/ SetPart(d, h, "failed")
  BY DEF PartLink
<1>6. PartFail(d, h) => SetPart(d, h, "failed")
  BY DEF PartFail
<1> QED
  BY <1>1, <1>2, <1>3, <1>4, <1>5, <1>6 DEF PartNext, PartPc

LEMMA GatesType ==
    ASSUME TypeOK, NEW d \in Deliveries, Gates(d)
    PROVE  TypeOK'
<1> USE DEF TypeOK, given, archiveVars, partVars, attVars, delVars, Active
<1>1. CASE Start(d)
  BY <1>1 DEF Start, Go
<1>2. CASE Gate(d)
  <2>1. CASE pc' = [pc EXCEPT ![d] = "refInsert"]
    <3>1. PICK e \in Deliveries : seen' = [seen EXCEPT ![d] = e] /\ place' = [place EXCEPT ![d] = rows[e]]
      BY <1>2, <2>1 DEF Gate, Go, Return, Live
    <3>2. rows[e] \in Row \cup {NoRow}
      OBVIOUS
    <3> QED
      BY <1>2, <2>1, <3>1, <3>2 DEF Gate, Go, Return
  <2>2. CASE pc' # [pc EXCEPT ![d] = "refInsert"]
    BY <1>2, <2>2 DEF Gate, Go, Return
  <2> QED
    BY <2>1, <2>2
<1>3. CASE HashSelf(d)
  BY <1>3 DEF HashSelf, Go, Return
<1>4. CASE HashOther(d)
  <2>1. place' \in [Deliveries -> Row \cup {NoRow}]
    <3>1. CASE place' = place
      BY <3>1
    <3>2. CASE \E e \in Live : StoredAt(d, rows[e].path, ContentOf[d])
      <4>1. PICK e \in Live : StoredAt(d, rows[e].path, ContentOf[d])
        BY <3>2
      <4>2. rows[e].path \in Paths
        BY DEF Live, Row
      <4> QED
        BY <4>1, <4>2, Constants DEF StoredAt, Row
    <3> QED
      BY <1>4, <3>1, <3>2 DEF HashOther
  <2> QED
    BY <1>4, <2>1 DEF HashOther, Go
<1> QED
  BY <1>1, <1>2, <1>3, <1>4 DEF Gates

LEMMA StoresType ==
    ASSUME TypeOK, NEW d \in Deliveries, Stores(d)
    PROVE  TypeOK'
<1> USE DEF TypeOK, given, archiveVars, partVars, attVars, delVars, Active
<1>0. \A path \in Paths, hash \in Contents : StoredAt(d, path, hash) => place' \in [Deliveries -> Row \cup {NoRow}]
  BY DEF StoredAt, Row
<1>1. CASE Put(d)
  BY <1>0, <1>1, Constants DEF Put, Go
<1>2. CASE Adopt(d)
  BY <1>0, <1>2, Constants DEF Adopt, Go, Return
<1>3. CASE PutOwn(d)
  BY <1>0, <1>3, Constants DEF PutOwn, Go
<1> QED
  BY <1>1, <1>2, <1>3 DEF Stores

LEMMA InsertsType ==
    ASSUME TypeOK, NEW d \in Deliveries, Inserts(d)
    PROVE  TypeOK'
<1> USE DEF TypeOK, given, archiveVars, partVars, attVars, delVars, Active
<1>1. CASE Insert(d)
  BY <1>1 DEF Insert, InsertRow, Go, Return
<1>2. CASE RefInsert(d)
  BY <1>2 DEF RefInsert, InsertRow, Go, Return
<1>3. CASE RefLinks(d)
  <2>1. { l[2] : l \in { k \in links : k[1] = seen[d] } } \subseteq AttachmentIds
    OBVIOUS
  <2> QED
    BY <1>3, <2>1 DEF RefLinks, Go
<1>4. CASE RefCopy(d)
  <2>1. {d} \X copy[d] \subseteq Deliveries \X AttachmentIds
    OBVIOUS
  <2>2. links' \subseteq Deliveries \X AttachmentIds
    BY <1>4, <2>1 DEF RefCopy
  <2> QED
    BY <1>4, <2>2 DEF RefCopy, Return, Go
<1> QED
  BY <1>1, <1>2, <1>3, <1>4 DEF Inserts

LEMMA EndsType ==
    ASSUME TypeOK, NEW d \in Deliveries, Ends(d)
    PROVE  TypeOK'
<1> USE DEF TypeOK, given, archiveVars, partVars, attVars, delVars, Active
<1>1. CASE PartsDone(d)
  BY <1>1 DEF PartsDone, Return, Go
<1>2. CASE Fail(d)
  BY <1>2, ConstantsAssumption DEF Fail, Return, Go, Spend
<1> QED
  BY <1>1, <1>2 DEF Ends

LEMMA PartsType ==
    ASSUME TypeOK, Waits, NEW d \in Deliveries, NEW h \in Parts, PartNext(d, h)
    PROVE  TypeOK'
<1>0. << d, h >> \in AttachmentIds /\ MailboxOf[d] \in Mailboxes
  BY Constants DEF AttachmentIds
<1>1. part' \in [Deliveries -> [Parts -> PartPc]]
  BY PartSteps, SetPartGives
<1>2. partId' \in [Deliveries -> [Parts -> AttachmentIds \cup {NoAttachment}]]
  <2>1. CASE partId' = partId
    BY <2>1 DEF TypeOK
  <2>2. CASE PartLookup(d, h)
    <3>1. attRows \subseteq AttachmentIds
      BY DEF TypeOK
    <3>2. CASE \E id \in attRows : Resolved(d, h, id)
      BY <3>1, <3>2, ResolvedGives
    <3> QED
      BY <2>1, <2>2, <3>2 DEF PartLookup
  <2>3. CASE PartCreate(d, h)
    BY <1>0, <2>3, ResolvedGives DEF PartCreate
  <2>4. CASE PartAwait(d, h)
    <3>1. promise[d][h] \in Deliveries
      BY <2>4 DEF PartAwait, Waits
    <3>2. partId[promise[d][h]][h] \in AttachmentIds \cup {NoAttachment}
      BY <3>1 DEF TypeOK
    <3>3. CASE Resolved(d, h, partId[promise[d][h]][h])
      BY <3>2, <3>3, ResolvedGives
    <3> QED
      BY <2>1, <2>4, <3>3 DEF PartAwait
  <2> QED
    BY <2>1, <2>2, <2>3, <2>4 DEF PartNext, PartStart, PartLink, PartFail
<1>3. promise' \in [Deliveries -> [Parts -> Deliveries \cup {NoRow}]]
      /\ cache' \in [Mailboxes -> [Parts -> Deliveries \cup {NoRow}]]
  <2>1. CASE PartStart(d, h)
    <3>1. PICK e \in Deliveries : promise' = [promise EXCEPT ![d][h] = e]
      BY <2>1, StartTypes
    <3> QED
      BY <2>1, <3>1, StartTypes DEF TypeOK
  <2>2. CASE PartFail(d, h)
    BY <1>0, <2>2 DEF TypeOK, PartFail
  <2>3. CASE ~ PartStart(d, h) /\ ~ PartFail(d, h)
    BY <2>3 DEF TypeOK, PartNext, PartLookup, PartCreate, PartAwait, PartLink
  <2> QED
    BY <2>1, <2>2, <2>3
<1>7. torn' \subseteq Mailboxes \X Parts
  <2>1. CASE PartStart(d, h)
    BY <1>0, <2>1, StartTypes DEF TypeOK
  <2>2. CASE ~ PartStart(d, h)
    BY <2>2 DEF TypeOK, PartNext, PartLookup, PartCreate, PartAwait, PartLink, PartFail
  <2> QED
    BY <2>1, <2>2
<1>4. attRows' \subseteq AttachmentIds /\ attFiles' \subseteq AttachmentIds
  BY <1>0 DEF TypeOK, attVars, PartNext, PartStart, PartLookup, PartCreate, PartAwait, PartLink, PartFail
<1>5. links' \subseteq Deliveries \X AttachmentIds
  BY DEF TypeOK, PartNext, PartStart, PartLookup, PartCreate, PartAwait, PartLink, PartFail
<1>6. faults' \in 0 .. Budget
  <2>1. CASE PartFail(d, h)
    BY <2>1, ConstantsAssumption DEF TypeOK, PartFail, Spend
  <2>2. CASE ~ PartFail(d, h)
    BY <2>2 DEF TypeOK, PartNext, PartStart, PartLookup, PartCreate, PartAwait, PartLink
  <2> QED
    BY <2>1, <2>2
<1> QED
  BY PartFrame, <1>1, <1>2, <1>3, <1>4, <1>5, <1>6, <1>7 DEF TypeOK, given, archiveVars, delVars

LEMMA NextPartType ==
    ASSUME TypeOK, NEW d \in Deliveries, NextPart(d)
    PROVE  todo' \in [Deliveries -> SUBSET AttachmentIds] /\ del' \in [Deliveries -> DelPc]
<1>1. PICK id : todo' = [todo EXCEPT ![d] = @ \ {id}]
  BY DEF NextPart
<1>2. todo' \in [Deliveries -> SUBSET AttachmentIds]
  BY <1>1 DEF TypeOK
<1>3. \E where \in { "emlCount", "unlink" } : del' = [del EXCEPT ![d] = where]
  BY DEF NextPart, DelGo
<1> QED
  BY <1>2, <1>3 DEF TypeOK, DelPc

LEMMA DeletionsType ==
    ASSUME TypeOK, NEW d \in Deliveries, DelNext(d)
    PROVE  TypeOK'
<1> USE DEF TypeOK, given, archiveVars, partVars, attVars, delVars, DelPc, DelGo
<1>1. CASE DelStart(d)
  BY <1>1 DEF DelStart
<1>2. CASE DelList(d)
  <2>1. { l[2] : l \in { k \in links : k[1] = d } } \subseteq AttachmentIds
    OBVIOUS
  <2> QED
    BY <1>2, <2>1 DEF DelList
<1>3. CASE DelUnlink(d)
  BY <1>3 DEF DelUnlink
<1>4. CASE DelCount(d)
  <2>1. CASE NextPart(d)
    BY <1>4, <2>1, NextPartType DEF DelCount
  <2>2. CASE ~ NextPart(d)
    BY <1>4, <2>2 DEF DelCount
  <2> QED
    BY <2>1, <2>2
<1>5. CASE DelFile(d)
  BY <1>5 DEF DelFile
<1>6. CASE DelRecord(d)
  <2>1. CASE NextPart(d)
    BY <1>6, <2>1, NextPartType DEF DelRecord
  <2>2. CASE ~ NextPart(d)
    BY <1>6, <2>2 DEF DelRecord
  <2> QED
    BY <2>1, <2>2
<1>7. CASE DelEmlCount(d)
  BY <1>7 DEF DelEmlCount
<1>8. CASE DelEmlFile(d)
  BY <1>8 DEF DelEmlFile
<1>9. CASE DelDocument(d)
  BY <1>9 DEF DelDocument
<1>10. CASE DelRow(d)
  BY <1>10 DEF DelRow
<1>11. CASE DelFail(d)
  BY <1>11, ConstantsAssumption DEF DelFail, Spend
<1> QED
  BY <1>1, <1>2, <1>3, <1>4, <1>5, <1>6, <1>7, <1>8, <1>9, <1>10, <1>11 DEF DelNext

LEMMA CrashType ==
    ASSUME TypeOK, NEW b \in Mailboxes, Crash(b)
    PROVE  TypeOK'
  BY ConstantsAssumption DEF TypeOK, given, attVars, delVars, PartPc, Crash, Spend

LEMMA TypeStep == TypeOK /\ Waits /\ [Next]_vars => TypeOK'
<1> SUFFICES ASSUME TypeOK, Waits, [Next]_vars PROVE TypeOK'
  OBVIOUS
<1>1. CASE Next
  BY <1>1, NextCases, GatesType, StoresType, InsertsType, EndsType, PartsType, DeletionsType, CrashType
<1>2. CASE UNCHANGED vars
  BY <1>2 DEF TypeOK, vars, given, archiveVars, partVars, attVars, delVars
<1> QED
  BY <1>1, <1>2

LEMMA WaitsStep == TypeOK /\ Waits /\ [Next]_vars => Waits'
<1> SUFFICES ASSUME TypeOK, Waits, [Next]_vars, NEW d \in Deliveries, NEW h \in Parts, part'[d][h] = "await"
             PROVE  promise'[d][h] \in Deliveries
  BY DEF Waits
<1>1. CASE UNCHANGED << part, promise >>
  BY <1>1 DEF Waits
<1>2. ASSUME NEW e \in Deliveries, NEW g \in Parts, PartNext(e, g) PROVE promise'[d][h] \in Deliveries
  <2>1. CASE PartStart(e, g)
    <3>1. PICK f \in Deliveries : promise' = [promise EXCEPT ![e][g] = f]
      BY <2>1, StartTypes
    <3>2. (d = e /\ h = g) \/ part[d][h] = "await"
      BY <1>2, PartSteps, SetPartGives
    <3> QED
      BY <3>1, <3>2 DEF TypeOK, Waits
  <2>2. CASE ~ PartStart(e, g)
    <3>1. promise' = promise
      BY <1>2, <2>2 DEF PartNext, PartLookup, PartCreate, PartAwait, PartLink, PartFail
    <3>2. \E step \in PartPc \ {"await"} : SetPart(e, g, step)
      BY <1>2, <2>2 DEF PartNext, PartLookup, PartCreate, PartAwait, PartLink, PartFail, PartPc
    <3>3. part[d][h] = "await"
      BY <3>2, SetPartGives
    <3> QED
      BY <3>1, <3>3 DEF Waits
  <2> QED
    BY <2>1, <2>2
<1>3. ASSUME NEW b \in Mailboxes, Crash(b) PROVE promise'[d][h] \in Deliveries
  BY <1>3 DEF Crash, TypeOK, Waits
<1>4. UNCHANGED << part, promise >> \/ (\E e \in Deliveries, g \in Parts : PartNext(e, g)) \/ \E b \in Mailboxes : Crash(b)
  BY NextCases, ArchiveFrame, DelFrame DEF vars, partVars
<1> QED
  BY <1>1, <1>2, <1>3, <1>4

\* Every variable of archiving and deleting keeps its type.
THEOREM TypeCorrect == Spec => [](TypeOK /\ Waits)
<1>1. Init => TypeOK /\ Waits
  BY InitTypeOK DEF Init, Waits
<1>2. (TypeOK /\ Waits) /\ [Next]_vars => (TypeOK /\ Waits)'
  BY TypeStep, WaitsStep
<1> QED
  BY <1>1, <1>2, PTL DEF Spec

-----------------------------------------------------------------------------
(* A row's bytes are its message's                                         *)

Says(d, r) == HeaderIn[r.hash] = Header(d) /\ (Header(d) = NoHeader => r.hash = ContentOf[d])

\* The row there is, and the row about to be inserted.
RightInv ==
    \A d \in Deliveries : /\ rows[d] # NoRow => Says(d, rows[d])
                          /\ place[d] # NoRow => Says(d, place[d])

LEMMA OwnBytes ==
    ASSUME TypeOK, NEW d \in Deliveries, NEW path, NEW hash, StoredAt(d, path, hash)
    PROVE  /\ place'[d].path = path /\ place'[d].hash = hash
           /\ \A e \in Deliveries : e # d => place'[e] = place[e]
  BY DEF TypeOK, StoredAt

LEMMA RightStep == TypeOK /\ RightInv /\ [Next]_vars => RightInv'
<1> SUFFICES ASSUME TypeOK, RightInv, [Next]_vars, NEW d \in Deliveries
             PROVE  /\ rows'[d] # NoRow => Says(d, rows'[d])
                    /\ place'[d] # NoRow => Says(d, place'[d])
  BY DEF RightInv, Says, Header
<1>1. ASSUME NEW e \in Deliveries, Gates(e)
      PROVE  rows' = rows /\ (place'[d] # NoRow => Says(d, place'[d]))
  <2>1. rows' = rows
    BY <1>1 DEF Gates, Start, Gate, HashSelf, HashOther
  <2>2. CASE place' = place
    BY <2>1, <2>2 DEF RightInv
  <2>3. CASE Gate(e) /\ place' # place
    <3>1. PICK f \in Live : KeyOf[f] = KeyOf[e] /\ place' = [place EXCEPT ![e] = rows[f]]
      BY <2>3 DEF Gate
    <3>2. Says(f, rows[f])
      BY DEF RightInv, Live
    <3>3. Says(e, rows[f])
      BY <3>1, <3>2, KeysAssumption DEF Says, Live
    <3> QED
      BY <2>1, <3>1, <3>3 DEF RightInv, TypeOK
  <2>4. CASE HashOther(e) /\ place' # place
    <3>1. PICK path : StoredAt(e, path, ContentOf[e])
      BY <2>4 DEF HashOther
    <3> QED
      BY <2>1, <3>1, OwnBytes DEF RightInv, Says, Header
  <2> QED
    BY <1>1, <2>1, <2>2, <2>3, <2>4 DEF Gates, Start, HashSelf
<1>2. ASSUME NEW e \in Deliveries, Stores(e)
      PROVE  rows' = rows /\ (place'[d] # NoRow => Says(d, place'[d]))
  <2>1. rows' = rows
    BY <1>2 DEF Stores, Put, Adopt, PutOwn
  <2>2. CASE place' = place
    BY <2>1, <2>2 DEF RightInv
  <2>3. CASE \E path : StoredAt(e, path, ContentOf[e])
    BY <2>1, <2>3, OwnBytes DEF RightInv, Says, Header
  <2>4. CASE \E path, stored : SameMessage(e, stored) /\ StoredAt(e, path, stored)
    BY <2>1, <2>4, OwnBytes DEF RightInv, Says, SameMessage
  <2>5. \/ place' = place \/ \E path : StoredAt(e, path, ContentOf[e])
        \/ \E path, stored : SameMessage(e, stored) /\ StoredAt(e, path, stored)
    <3>1. CASE Put(e)
      BY <3>1 DEF Put
    <3>2. CASE Adopt(e)
      BY <3>2 DEF Adopt
    <3>3. CASE PutOwn(e)
      BY <3>3 DEF PutOwn
    <3> QED
      BY <1>2, <3>1, <3>2, <3>3 DEF Stores
  <2> QED
    BY <2>1, <2>2, <2>3, <2>4, <2>5
<1>3. ASSUME NEW e \in Deliveries, Inserts(e)
      PROVE  /\ rows'[d] # NoRow => Says(d, rows'[d])
             /\ place'[d] # NoRow => Says(d, place'[d])
  <2>1. CASE InsertRow(e)
    BY <2>1 DEF InsertRow, RightInv, TypeOK
  <2>2. CASE UNCHANGED << rows, place >>
    BY <2>2 DEF RightInv
  <2> QED
    BY <1>3, <2>1, <2>2 DEF Inserts, Insert, RefInsert, RefLinks, RefCopy
<1>4. ASSUME NEW e \in Deliveries, Ends(e)
      PROVE  rows' = rows /\ (place'[d] # NoRow => Says(d, place'[d]))
  BY <1>4 DEF Ends, PartsDone, Fail, RightInv, TypeOK
<1>5. ASSUME NEW e \in Deliveries, DelNext(e)
      PROVE  place' = place /\ (rows' = rows \/ rows' = [rows EXCEPT ![e] = NoRow])
  BY <1>5, DelFrame DEF archiveVars, DelNext, DelStart, DelList, DelUnlink, DelCount, DelFile, DelRecord,
         DelEmlCount, DelEmlFile, DelDocument, DelRow, DelFail
<1>6. ASSUME NEW b \in Mailboxes, Crash(b)
      PROVE  rows' = rows /\ place'[d] \in { place[d], NoRow }
  BY <1>6 DEF Crash
<1>7. CASE UNCHANGED << rows, place >>
  BY <1>7 DEF RightInv
<1>8. ASSUME NEW e \in Deliveries, DelNext(e)
      PROVE  /\ rows'[d] # NoRow => Says(d, rows'[d])
             /\ place'[d] # NoRow => Says(d, place'[d])
  BY <1>5, <1>8 DEF RightInv, TypeOK
<1> QED
  BY <1>1, <1>2, <1>3, <1>4, <1>6, <1>7, <1>8, NextCases, PartFrame DEF vars, archiveVars, RightInv

\* The bytes a row names are its message's, whatever was found at the path it
\* wanted (storeEmailOrAdopt).
THEOREM FileIsTheMessageAlways == Spec => []FileIsTheMessage
<1>1. Init => TypeOK /\ Waits /\ RightInv
  BY InitTypeOK DEF Init, Waits, RightInv
<1>2. (TypeOK /\ Waits /\ RightInv) /\ [Next]_vars => (TypeOK /\ Waits /\ RightInv)'
  BY TypeStep, WaitsStep, RightStep
<1>3. RightInv => FileIsTheMessage
  BY DEF RightInv, Says, FileIsTheMessage, Live
<1> QED
  BY <1>1, <1>2, <1>3, PTL DEF Spec

-----------------------------------------------------------------------------
(* One row per message                                                     *)

\* How a delivery gets where it is.
LEMMA PcSteps ==
    ASSUME TypeOK, [Next]_vars
    PROVE  /\ preserve' = preserve
           /\ \/ pc' = pc
              \/ \E e \in Deliveries : \/ pc' = [pc EXCEPT ![e] = "gate"] /\ Start(e)
                                       \/ pc[e] \in Active /\ \E where : pc' = [pc EXCEPT ![e] = where]
              \/ \A d \in Deliveries : pc'[d] = pc[d] \/ pc'[d] = "idle"
<1>1. ASSUME NEW e \in Deliveries, Gates(e) \/ Stores(e) \/ Inserts(e) \/ Ends(e)
      PROVE  \/ pc' = pc
             \/ pc' = [pc EXCEPT ![e] = "gate"] /\ Start(e)
             \/ pc[e] \in Active /\ \E where : pc' = [pc EXCEPT ![e] = where]
  <2>1. Gates(e) => \/ pc' = [pc EXCEPT ![e] = "gate"] /\ Start(e)
                    \/ pc[e] \in Active /\ \E where : pc' = [pc EXCEPT ![e] = where]
    BY DEF Gates, Start, Gate, HashSelf, HashOther, Go, Return, Active
  <2>2. Stores(e) => pc[e] \in Active /\ \E where : pc' = [pc EXCEPT ![e] = where]
    BY DEF Stores, Put, Adopt, PutOwn, Go, Return, Active
  <2>3. Inserts(e) => pc[e] \in Active /\ \E where : pc' = [pc EXCEPT ![e] = where]
    BY DEF Inserts, Insert, RefInsert, RefLinks, RefCopy, Go, Return, Active
  <2>4. Ends(e) => pc[e] \in Active /\ \E where : pc' = [pc EXCEPT ![e] = where]
    BY DEF Ends, PartsDone, Fail, Go, Return, Active
  <2> QED
    BY <1>1, <2>1, <2>2, <2>3, <2>4
<1>2. ASSUME NEW b \in Mailboxes, Crash(b) PROVE preserve' = preserve /\ \A d \in Deliveries : pc'[d] = pc[d] \/ pc'[d] = "idle"
  BY <1>2 DEF Crash, given
<1>3. CASE UNCHANGED vars
  BY <1>3 DEF vars, given, archiveVars
<1> QED
  BY <1>1, <1>2, <1>3, NextCases, ArchiveFrame, PartFrame, DelFrame DEF given, archiveVars

\* The job keeps deliveries apart that could meet at the gates.
AloneInv ==
    \A d, e \in Deliveries : SerializedWith(d, e) /\ pc[d] \in Active /\ pc[e] \in Active => d = e

LEMMA AloneStep == TypeOK /\ AloneInv /\ [Next]_vars => AloneInv'
<1> SUFFICES ASSUME TypeOK, AloneInv, [Next]_vars, NEW d \in Deliveries, NEW e \in Deliveries,
                    SerializedWith(d, e)', pc'[d] \in Active, pc'[e] \in Active
             PROVE  d = e
  BY DEF AloneInv
<1>1. SerializedWith(d, e) /\ SerializedWith(e, d)
  BY PcSteps DEF SerializedWith
<1>2. CASE pc[d] \in Active /\ pc[e] \in Active
  BY <1>1, <1>2 DEF AloneInv
<1>3. ASSUME NEW f \in Deliveries, Start(f), f = d \/ f = e PROVE d = e
  <2>1. \A g \in Deliveries : SerializedWith(f, g) => pc[g] \notin Active
    BY <1>3 DEF Start
  <2>2. \A g \in Deliveries : g # f => pc'[g] = pc[g]
    BY <1>3 DEF Start, Go, TypeOK
  <2> QED
    BY <1>1, <1>3, <2>1, <2>2
<1>4. pc[d] \in Active \/ Start(d)
  BY PcSteps DEF TypeOK, Active
<1>5. pc[e] \in Active \/ Start(e)
  BY PcSteps DEF TypeOK, Active
<1> QED
  BY <1>2, <1>3, <1>4, <1>5

\* Past the gates, until the row is there.
Beyond == { "hashSelf", "hashOther", "put", "adopt", "putOwn", "insert", "refInsert" }

\* What the gates did not find has not come since.
NewInv ==
    \A d, e \in Deliveries :
        pc[d] \in Beyond /\ rows[e] # NoRow /\ MailboxOf[e] = MailboxOf[d] =>
            /\ KeyOf[e] # KeyOf[d]
            /\ preserve /\ Header(d) = NoHeader /\ pc[d] # "hashSelf" => rows[e].hash # ContentOf[d]

\* A file is shared by Message-ID only.
RefKeyed == \A d \in Deliveries : pc[d] = "refInsert" => Header(d) # NoHeader

\* A row is inserted behind the gates, or deleted.
LEMMA RowSteps ==
    ASSUME TypeOK, [Next]_vars
    PROVE  \/ rows' = rows
           \/ \E e \in Deliveries : rows' = [rows EXCEPT ![e] = NoRow] /\ pc' = pc /\ DelRow(e)
           \/ \E e \in Deliveries : /\ pc[e] \in { "insert", "refInsert" }
                                    /\ rows' = [rows EXCEPT ![e] = place[e]]
                                    /\ \E where \in { "done", "parts", "refLinks" } : pc' = [pc EXCEPT ![e] = where]
<1>1. ASSUME NEW e \in Deliveries, Inserts(e)
      PROVE  \/ rows' = rows
             \/ /\ pc[e] \in { "insert", "refInsert" }
                /\ rows' = [rows EXCEPT ![e] = place[e]]
                /\ \E where \in { "done", "parts", "refLinks" } : pc' = [pc EXCEPT ![e] = where]
  BY <1>1 DEF Inserts, Insert, RefInsert, RefLinks, RefCopy, InsertRow, Go, Return
<1>2. ASSUME NEW e \in Deliveries, Gates(e) \/ Stores(e) \/ Ends(e) PROVE rows' = rows
  BY <1>2 DEF Gates, Stores, Ends, Start, Gate, HashSelf, HashOther, Put, Adopt, PutOwn, PartsDone, Fail
<1>3. ASSUME NEW e \in Deliveries, DelNext(e)
      PROVE  rows' = rows \/ (rows' = [rows EXCEPT ![e] = NoRow] /\ pc' = pc /\ DelRow(e))
  BY <1>3 DEF DelNext, DelStart, DelList, DelUnlink, DelCount, DelFile, DelRecord, DelEmlCount,
              DelEmlFile, DelDocument, DelRow, DelFail, archiveVars
<1>4. ASSUME NEW b \in Mailboxes, Crash(b) PROVE rows' = rows
  BY <1>4 DEF Crash
<1>5. CASE UNCHANGED vars
  BY <1>5 DEF vars
<1> QED
  BY <1>1, <1>2, <1>3, <1>4, <1>5, NextCases, PartFrame

\* How a delivery gets past the gates.
LEMMA BeyondSteps ==
    ASSUME TypeOK, [Next]_vars, NEW d \in Deliveries, pc'[d] \in Beyond
    PROVE  \/ pc[d] = pc'[d]
           \/ pc[d] \in Beyond \ { "hashSelf" } /\ pc'[d] \in Beyond \ { "hashSelf", "refInsert" }
           \/ HashSelf(d) \/ Gate(d)
<1>1. ASSUME NEW e \in Deliveries, Gates(e) \/ Stores(e) \/ Inserts(e) \/ Ends(e), e # d PROVE pc'[d] = pc[d]
  BY <1>1 DEF TypeOK, Gates, Stores, Inserts, Ends, Start, Gate, HashSelf, HashOther, Put, Adopt, PutOwn, Insert,
         RefInsert, RefLinks, RefCopy, PartsDone, Fail, Go, Return
<1>2. CASE Gates(d)
  BY <1>2 DEF Gates, Start, HashOther, Go, TypeOK, Beyond
<1>3. CASE Stores(d)
  BY <1>3 DEF Stores, Put, Adopt, PutOwn, Go, Return, TypeOK, Beyond
<1>4. CASE Inserts(d)
  BY <1>4 DEF Inserts, Insert, RefInsert, RefLinks, RefCopy, Go, Return, TypeOK, Beyond
<1>5. CASE Ends(d)
  BY <1>5 DEF Ends, PartsDone, Fail, Go, Return, TypeOK, Beyond
<1>6. ASSUME NEW b \in Mailboxes, Crash(b) PROVE pc'[d] = pc[d]
  BY <1>6 DEF Crash, TypeOK, Beyond
<1>7. CASE UNCHANGED vars
  BY <1>7 DEF vars, archiveVars
<1> QED
  BY <1>1, <1>2, <1>3, <1>4, <1>5, <1>6, <1>7, NextCases, PartFrame, DelFrame DEF archiveVars

LEMMA RefKeyedStep == TypeOK /\ RefKeyed /\ [Next]_vars => RefKeyed'
<1> SUFFICES ASSUME TypeOK, RefKeyed, [Next]_vars, NEW d \in Deliveries, pc'[d] = "refInsert"
             PROVE  Header(d) # NoHeader
  BY DEF RefKeyed, Header
<1>1. pc[d] = "refInsert" \/ HashSelf(d) \/ Gate(d)
  BY BeyondSteps DEF Beyond
<1>2. CASE HashSelf(d)
  BY <1>2 DEF HashSelf, Go, Return, TypeOK
<1>3. CASE Gate(d)
  <2>1. PICK e \in Live : KeyOf[e] = KeyOf[d] /\ MailboxOf[e] # MailboxOf[d]
    BY <1>3 DEF Gate, Go, Return, TypeOK
  <2> QED
    BY <2>1, KeysAssumption DEF Live
<1> QED
  BY <1>1, <1>2, <1>3 DEF RefKeyed

LEMMA NewStep == TypeOK /\ RightInv /\ AloneInv /\ RefKeyed /\ NewInv /\ [Next]_vars => NewInv'
<1> SUFFICES ASSUME TypeOK, RightInv, AloneInv, RefKeyed, NewInv, [Next]_vars,
                    NEW d \in Deliveries, NEW e \in Deliveries,
                    pc'[d] \in Beyond, rows'[e] # NoRow, MailboxOf[e] = MailboxOf[d]
             PROVE  /\ KeyOf[e] # KeyOf[d]
                    /\ preserve /\ Header(d) = NoHeader /\ pc'[d] # "hashSelf" => rows'[e].hash # ContentOf[d]
  BY PcSteps DEF NewInv, Header
<1>1. CASE rows'[e] = rows[e]
  <2>1. CASE pc[d] = pc'[d]
    BY <1>1, <2>1 DEF NewInv
  <2>2. CASE pc[d] \in Beyond \ { "hashSelf" }
    BY <1>1, <2>2 DEF NewInv
  <2>3. CASE HashSelf(d)
    <3>1. pc[d] = "hashSelf" /\ KeyOf[e] # KeyOf[d]
      BY <1>1, <2>3 DEF HashSelf, NewInv, Beyond
    <3>2. ~ (e \in Live /\ rows[e].hash = ContentOf[d])
      BY <2>3, <3>1 DEF HashSelf, Return, Go, TypeOK, Beyond
    <3> QED
      BY <1>1, <3>1, <3>2 DEF Live
  <2>4. CASE Gate(d)
    <3>1. e \in Live
      BY <1>1 DEF Live
    <3>2. KeyOf[e] # KeyOf[d]
      BY <2>4, <3>1 DEF Gate, Return, Go, TypeOK, Beyond
    <3>3. pc'[d] \in { "hashSelf", "put", "refInsert" } /\ (preserve => pc'[d] # "put")
      BY <2>4 DEF Gate, Return, Go, TypeOK, Beyond
    <3>4. pc'[d] = "refInsert" => Header(d) # NoHeader
      BY RefKeyedStep DEF RefKeyed, Header
    <3> QED
      BY <3>2, <3>3, <3>4
  <2> QED
    BY <2>1, <2>2, <2>3, <2>4, BeyondSteps
<1>2. CASE rows'[e] # rows[e]
  <2>1. /\ pc[e] \in { "insert", "refInsert" } /\ rows'[e] = place[e] /\ pc'[e] \in { "done", "parts", "refLinks" }
        /\ \A f \in Deliveries : f # e => pc'[f] = pc[f]
    BY <1>2, RowSteps DEF TypeOK
  <2>2. d # e /\ pc[d] \in Beyond
    BY <2>1 DEF Beyond
  <2>3. ~ SerializedWith(d, e)
    BY <2>1, <2>2 DEF AloneInv, Active, Beyond
  <2>4. rows'[e].hash = ContentOf[d] => Header(e) = Header(d)
    BY <2>1 DEF RightInv, Says, Header
  <2> QED
    BY <2>3, <2>4 DEF SerializedWith
<1> QED
  BY <1>1, <1>2

LEMMA OneRowStep ==
    TypeOK /\ RightInv /\ RefKeyed /\ NewInv /\ OneRowPerMessage /\ [Next]_vars => OneRowPerMessage'
<1> SUFFICES ASSUME TypeOK, RightInv, RefKeyed, NewInv, OneRowPerMessage, [Next]_vars,
                    NEW d \in Deliveries, NEW e \in Deliveries, rows'[d] # NoRow, rows'[e] # NoRow,
                    MailboxOf[d] = MailboxOf[e],
                    KeyOf[d] = KeyOf[e] \/ (preserve /\ rows'[d].hash = rows'[e].hash /\ Header(d) = NoHeader)
             PROVE  d = e
  BY PcSteps DEF OneRowPerMessage, Live, Header
<1>1. CASE rows'[d] = rows[d] /\ rows'[e] = rows[e]
  BY <1>1 DEF OneRowPerMessage, Live
<1>2. ASSUME NEW f \in Deliveries, NEW g \in Deliveries, f # g, rows'[f] # rows[f], rows'[f] # NoRow,
             rows'[g] # NoRow, MailboxOf[f] = MailboxOf[g]
      PROVE  /\ KeyOf[f] # KeyOf[g]
             /\ ~ (preserve /\ rows'[f].hash = rows'[g].hash /\ (Header(f) = NoHeader \/ Header(g) = NoHeader))
  <2>1. pc[f] \in { "insert", "refInsert" } /\ rows'[f] = place[f] /\ rows'[g] = rows[g]
    BY <1>2, RowSteps DEF TypeOK
  <2>2. Says(f, rows'[f]) /\ Says(g, rows'[g])
    BY <1>2, <2>1 DEF RightInv
  <2>3. KeyOf[f] # KeyOf[g] /\ (preserve /\ Header(f) = NoHeader => rows[g].hash # ContentOf[f])
    BY <1>2, <2>1 DEF NewInv, RefKeyed, Beyond
  <2> QED
    BY <2>1, <2>2, <2>3 DEF Says, Header
<1> QED
  BY <1>1, <1>2

RowInv == TypeOK /\ Waits /\ RightInv /\ AloneInv /\ RefKeyed /\ NewInv /\ OneRowPerMessage

\* A mailbox has one row per message, and in preserve mode one per content of those
\* without a Message-ID: what the gates check is still so at the insert, because
\* the keyed chains keep those deliveries apart (processEmail, dedupKeyFor).
THEOREM OneRowPerMessageAlways == Spec => []OneRowPerMessage
<1>1. Init => RowInv
  <2>1. Init => Waits /\ RightInv /\ AloneInv /\ RefKeyed /\ NewInv /\ OneRowPerMessage
    BY DEF Init, Waits, RightInv, AloneInv, RefKeyed, NewInv, OneRowPerMessage, Active, Beyond, Live
  <2> QED
    BY <2>1, InitTypeOK DEF RowInv
<1>2. RowInv /\ [Next]_vars => RowInv'
  BY TypeStep, WaitsStep, RightStep, AloneStep, RefKeyedStep, NewStep, OneRowStep DEF RowInv
<1>3. RowInv => OneRowPerMessage
  BY DEF RowInv
<1> QED
  BY <1>1, <1>2, <1>3, PTL DEF Spec

-----------------------------------------------------------------------------
(* One record per attachment and job                                       *)

Busy == { "lookup", "create", "await", "ready" }

\* Attachments are worked on while their email waits for them, its own only.
PartsActive == \A d \in Deliveries, h \in Parts : part[d][h] \in Busy => pc[d] = "parts"
PartsOwn == \A d \in Deliveries, h \in Parts : part[d][h] # "idle" => h \in PartsOf[ContentOf[d]]

InFlight == { "lookup", "create" }
IsTorn(d, h) == << MailboxOf[d], h >> \in torn

\* Who looks up or creates a record holds the job's promise for it, unless it
\* was dropped on the way ...
CacheInv ==
    \A d \in Deliveries, h \in Parts :
        part[d][h] \in InFlight => cache[MailboxOf[d]][h] = d \/ IsTorn(d, h)

\* ... and has found none, nor has the job made one since.
CreateInv ==
    \A d \in Deliveries, h \in Parts : part[d][h] = "create" =>
        \A id \in attRows : id[2] = h => MailboxOf[id[1]] # MailboxOf[d] \/ IsTorn(d, h)

\* An email that asks for an attachment shares the promise, or takes its place
\* in the cache, where it may drop another's.
LEMMA StartGives ==
    ASSUME TypeOK, NEW e \in Deliveries, NEW g \in Parts, PartStart(e, g)
    PROVE  \/ cache' = cache /\ torn' = torn /\ part'[e][g] = "await"
           \/ /\ cache[MailboxOf[e]][g] = NoRow /\ torn \subseteq torn'
              /\ part'[e][g] = "lookup" /\ cache'[MailboxOf[e]][g] = e
              /\ \A b \in Mailboxes : b # MailboxOf[e] => cache'[b] = cache[b]
              /\ \A h \in Parts : h # g =>
                    \/ cache'[MailboxOf[e]][h] = cache[MailboxOf[e]][h]
                    \/ part[cache[MailboxOf[e]][h]][h] \notin InFlight
                    \/ << MailboxOf[e], h >> \in torn'
<1> DEFINE b == MailboxOf[e]
<1>0. b \in Mailboxes
  BY Constants
<1>1. \A step \in PartPc : SetPart(e, g, step) => part'[e][g] = step
  BY SetPartGives
<1>2. CASE g \in Cached(b)
  BY <1>1, <1>2 DEF PartStart, PartPc
<1>3. CASE g \notin Cached(b)
  <2>1. PICK gone \in Evicted(b) :
          /\ cache' = [cache EXCEPT ![b] =
                [h \in Parts |-> IF h = g THEN e ELSE IF h \in gone THEN NoRow ELSE cache[b][h]]]
          /\ torn' = torn \cup { << b, h >> : h \in { h \in gone : part[cache[b][h]][h] \in { "lookup", "create" } } }
    BY <1>3 DEF PartStart
  <2>2. cache[b][g] = NoRow /\ part'[e][g] = "lookup"
    BY <1>1, <1>3 DEF PartStart, Cached, PartPc
  <2>3. /\ \A c \in Mailboxes : c # b => cache'[c] = cache[c]
        /\ cache'[b] = [h \in Parts |-> IF h = g THEN e ELSE IF h \in gone THEN NoRow ELSE cache[b][h]]
    BY <1>0, <2>1 DEF TypeOK
  <2>4. \A h \in Parts : h # g => \/ cache'[b][h] = cache[b][h]
                                \/ part[cache[b][h]][h] \notin InFlight
                                \/ << b, h >> \in torn'
    <3>1. ASSUME NEW h \in Parts, h # g, cache'[b][h] # cache[b][h], part[cache[b][h]][h] \in InFlight
          PROVE  << b, h >> \in torn'
      <4>1. h \in gone
        BY <2>3, <3>1
      <4> QED
        BY <2>1, <3>1, <4>1 DEF InFlight
    <3> HIDE DEF b
    <3> QED
      BY <3>1, Zenon
  <2> QED
    BY <2>1, <2>2, <2>3, <2>4
<1> QED
  BY <1>2, <1>3

\* What was dropped stays on record.
LEMMA TornKeeps == TypeOK /\ [Next]_vars => torn \subseteq torn'
<1> SUFFICES ASSUME TypeOK, [Next]_vars PROVE torn \subseteq torn'
  OBVIOUS
<1>1. ASSUME NEW e \in Deliveries, NEW g \in Parts, PartNext(e, g) PROVE torn \subseteq torn'
  BY <1>1, StartGives DEF PartNext, PartLookup, PartCreate, PartAwait, PartLink, PartFail
<1>2. ASSUME NEW b \in Mailboxes, Crash(b) PROVE torn' = torn
  BY <1>2 DEF Crash
<1> QED
  BY <1>1, <1>2, NextCases, ArchiveFrame, DelFrame DEF partVars, vars

\* An attachment's step changes its own state only, and starts from a busy one
\* or for the first time.
LEMMA PartMoves ==
    ASSUME TypeOK, NEW e \in Deliveries, NEW g \in Parts, PartNext(e, g)
    PROVE  /\ \A d \in Deliveries, h \in Parts : d # e \/ h # g => part'[d][h] = part[d][h]
           /\ part[e][g] \in Busy \/ (part[e][g] = "idle" /\ PartStart(e, g))
<1>1. \A d \in Deliveries, h \in Parts : d # e \/ h # g => part'[d][h] = part[d][h]
  BY PartSteps, SetPartGives
<1>2. part[e][g] \in Busy \/ (part[e][g] = "idle" /\ PartStart(e, g))
  BY DEF PartNext, PartStart, PartLookup, PartCreate, PartAwait, PartLink, PartFail, Busy
<1> QED
  BY <1>1, <1>2

\* Attachments change by their own steps, and by a crash.
LEMMA PartOrNot ==
    ASSUME [Next]_vars
    PROVE  \/ part' = part
           \/ \E e \in Deliveries, g \in Parts : PartNext(e, g)
           \/ \E b \in Mailboxes : Crash(b)
  BY NextCases, ArchiveFrame, DelFrame DEF partVars, vars

LEMMA PartsOwnStep == TypeOK /\ PartsActive /\ PartsOwn /\ [Next]_vars => PartsOwn'
<1> SUFFICES ASSUME TypeOK, PartsActive, PartsOwn, [Next]_vars,
                    NEW d \in Deliveries, NEW h \in Parts, part'[d][h] # "idle"
             PROVE  h \in PartsOf[ContentOf[d]]
  BY DEF PartsOwn
<1>1. CASE part[d][h] # "idle"
  BY <1>1 DEF PartsOwn
<1>2. CASE part[d][h] = "idle"
  <2>1. ASSUME NEW e \in Deliveries, NEW g \in Parts, PartNext(e, g) PROVE h \in PartsOf[ContentOf[d]]
    <3>1. d = e /\ h = g
      BY <1>2, <2>1, PartMoves
    <3>2. PartStart(e, g)
      BY <1>2, <2>1, <3>1, PartMoves DEF Busy
    <3> QED
      BY <3>1, <3>2 DEF PartStart
  <2>2. CASE part' = part
    BY <1>2, <2>2
  <2>3. ASSUME NEW b \in Mailboxes, Crash(b) PROVE h \in PartsOf[ContentOf[d]]
    BY <1>2, <2>3 DEF Crash, TypeOK
  <2> QED
    BY <2>1, <2>2, <2>3, PartOrNot
<1> QED
  BY <1>1, <1>2

LEMMA PartsActiveStep == TypeOK /\ PartsActive /\ PartsOwn /\ [Next]_vars => PartsActive'
<1> SUFFICES ASSUME TypeOK, PartsActive, PartsOwn, [Next]_vars,
                    NEW d \in Deliveries, NEW h \in Parts, part'[d][h] \in Busy
             PROVE  pc'[d] = "parts"
  BY DEF PartsActive
<1>1. ASSUME NEW e \in Deliveries, NEW g \in Parts, PartNext(e, g) PROVE pc'[d] = "parts"
  <2>1. pc' = pc
    BY <1>1, PartFrame DEF archiveVars
  <2>2. CASE PartStart(e, g) /\ d = e
    BY <2>1, <2>2 DEF PartStart
  <2>3. CASE ~ (PartStart(e, g) /\ d = e)
    BY <1>1, <2>1, <2>3, PartMoves DEF PartsActive
  <2> QED
    BY <2>2, <2>3
<1>2. ASSUME NEW e \in Deliveries, Gates(e) \/ Stores(e) \/ Inserts(e) \/ Ends(e) PROVE pc'[d] = "parts"
  <2>1. part' = part /\ pc[d] = "parts"
    BY <1>2, ArchiveFrame DEF partVars, PartsActive
  <2>2. CASE e = d
    <3>1. PartsDone(d)
      BY <1>2, <2>1, <2>2 DEF Gates, Stores, Inserts, Ends, Start, Gate, HashSelf, HashOther, Put, Adopt, PutOwn,
            Insert, RefInsert, RefLinks, RefCopy, Fail
    <3>2. h \in PartsOf[ContentOf[d]]
      BY <2>1 DEF PartsOwn, Busy
    <3> QED
      BY <2>1, <3>1, <3>2 DEF PartsDone, Busy
  <2>3. CASE e # d
    BY <1>2, <2>1, <2>3 DEF TypeOK, Gates, Stores, Inserts, Ends, Start, Gate, HashSelf, HashOther, Put, Adopt, PutOwn,
          Insert, RefInsert, RefLinks, RefCopy, PartsDone, Fail, Go, Return
  <2> QED
    BY <2>2, <2>3
<1>3. ASSUME NEW b \in Mailboxes, Crash(b) PROVE pc'[d] = "parts"
  BY <1>3 DEF Crash, PartsActive, Active, Busy, TypeOK
<1>4. CASE UNCHANGED << pc, part >>
  BY <1>4 DEF PartsActive
<1> QED
  BY <1>1, <1>2, <1>3, <1>4, NextCases, DelFrame DEF partVars, archiveVars, vars

LEMMA CacheStep == TypeOK /\ PartsActive /\ CacheInv /\ [Next]_vars => CacheInv'
<1> DEFINE Kept(d, h) == cache'[MailboxOf[d]][h] = d \/ IsTorn(d, h)'
<1> SUFFICES ASSUME TypeOK, PartsActive, CacheInv, [Next]_vars,
                    NEW d \in Deliveries, NEW h \in Parts, part'[d][h] \in InFlight
             PROVE  Kept(d, h)
  BY DEF CacheInv
<1>0. MailboxOf[d] \in Mailboxes /\ d # NoRow /\ (IsTorn(d, h) => IsTorn(d, h)')
  BY Constants, TornKeeps DEF IsTorn
<1>1. ASSUME NEW e \in Deliveries, NEW g \in Parts, PartNext(e, g) PROVE Kept(d, h)
  <2>0. MailboxOf[e] \in Mailboxes
    BY Constants
  <2>1. CASE PartStart(e, g)
    <3>1. CASE d = e /\ h = g
      BY <2>1, <3>1, StartGives DEF InFlight
    <3>2. CASE d # e \/ h # g
      <4>1. part[d][h] \in InFlight /\ (cache[MailboxOf[d]][h] = d \/ IsTorn(d, h))
        BY <1>1, <3>2, PartMoves DEF CacheInv
      <4>2. CASE cache[MailboxOf[d]][h] = d
        BY <1>0, <2>1, <4>1, <4>2, StartGives DEF IsTorn
      <4> QED
        BY <1>0, <4>1, <4>2
    <3> QED
      BY <3>1, <3>2
  <2>2. CASE PartFail(e, g)
    <3>1. d # e \/ h # g
      BY <2>2, SetPartGives DEF PartFail, PartPc, InFlight
    <3>2. cache[MailboxOf[d]][h] = d \/ IsTorn(d, h)
      BY <1>1, <3>1, PartMoves DEF CacheInv
    <3>3. CASE part[e][g] = "ready"
      BY <1>0, <2>2, <3>2, <3>3 DEF PartFail
    <3>4. CASE part[e][g] # "ready"
      <4>1. cache[MailboxOf[e]][g] = e \/ IsTorn(e, g)
        BY <2>2, <3>4 DEF PartFail, CacheInv, InFlight
      <4>2. cache' = [cache EXCEPT ![MailboxOf[e]][g] = NoRow]
        BY <2>2, <3>4 DEF PartFail
      <4>3. CASE MailboxOf[d] = MailboxOf[e] /\ h = g
        BY <1>0, <3>1, <3>2, <4>1, <4>3 DEF IsTorn
      <4>4. CASE ~ (MailboxOf[d] = MailboxOf[e] /\ h = g)
        <5>1. cache'[MailboxOf[d]][h] = cache[MailboxOf[d]][h]
          BY <1>0, <2>0, <4>2, <4>4 DEF TypeOK
        <5> QED
          BY <1>0, <3>2, <5>1
      <4> QED
        BY <4>3, <4>4
    <3> QED
      BY <3>3, <3>4
  <2>3. CASE PartLookup(e, g) \/ PartCreate(e, g) \/ PartAwait(e, g) \/ PartLink(e, g)
    <3>1. cache' = cache
      BY <2>3 DEF PartLookup, PartCreate, PartAwait, PartLink
    <3>2. part[d][h] \in InFlight
      <4>1. CASE d = e /\ h = g
        <5>1. PartLookup(e, g)
          BY <2>3, <4>1, SetPartGives DEF PartCreate, PartAwait, PartLink, PartPc, InFlight
        <5> QED
          BY <4>1, <5>1 DEF PartLookup, InFlight
      <4>2. CASE d # e \/ h # g
        BY <1>1, <4>2, PartMoves
      <4> QED
        BY <4>1, <4>2
    <3> QED
      BY <1>0, <3>1, <3>2 DEF CacheInv
  <2> QED
    BY <1>1, <2>1, <2>2, <2>3 DEF PartNext
<1>2. ASSUME NEW b \in Mailboxes, Crash(b) PROVE Kept(d, h)
  <2>1. part[d][h] \in InFlight /\ ~ (MailboxOf[d] = b /\ pc[d] \in Active)
    BY <1>2 DEF Crash, TypeOK, InFlight
  <2>2. MailboxOf[d] # b
    BY <2>1 DEF PartsActive, Busy, Active, InFlight
  <2>3. cache'[MailboxOf[d]] = cache[MailboxOf[d]]
    BY <1>0, <1>2, <2>2 DEF Crash, TypeOK
  <2> QED
    BY <1>0, <2>1, <2>3 DEF CacheInv
<1>3. CASE UNCHANGED << part, cache >>
  BY <1>0, <1>3 DEF CacheInv
<1> QED
  BY <1>1, <1>2, <1>3, NextCases, ArchiveFrame, DelFrame DEF partVars, vars

\* Records come by PartCreate, and go by DelRecord.
LEMMA RecordSteps ==
    ASSUME TypeOK, [Next]_vars
    PROVE  attRows' \subseteq attRows \/ \E e \in Deliveries, g \in Parts : PartCreate(e, g)
<1>1. ASSUME NEW e \in Deliveries, NEW g \in Parts, PartNext(e, g) PROVE PartCreate(e, g) \/ attRows' = attRows
  BY <1>1 DEF PartNext, PartStart, PartLookup, PartAwait, PartLink, PartFail, attVars
<1>2. ASSUME NEW e \in Deliveries, DelNext(e) PROVE attRows' \subseteq attRows
  BY <1>2 DEF DelNext, DelStart, DelList, DelUnlink, DelCount, DelFile, DelRecord, DelEmlCount,
         DelEmlFile, DelDocument, DelRow, DelFail, attVars
<1>3. ASSUME NEW b \in Mailboxes, Crash(b) PROVE attRows' = attRows
  BY <1>3 DEF Crash, attVars
<1> QED
  BY <1>1, <1>2, <1>3, NextCases, ArchiveFrame DEF attVars, vars

LEMMA CreateStep == TypeOK /\ CacheInv /\ CreateInv /\ [Next]_vars => CreateInv'
<1> SUFFICES ASSUME TypeOK, CacheInv, CreateInv, [Next]_vars,
                    NEW d \in Deliveries, NEW h \in Parts, part'[d][h] = "create",
                    NEW id \in attRows', id[2] = h
             PROVE  MailboxOf[id[1]] # MailboxOf[d] \/ IsTorn(d, h)'
  BY DEF CreateInv
<1>0. IsTorn(d, h) => IsTorn(d, h)'
  BY TornKeeps DEF IsTorn
<1>1. ASSUME NEW e \in Deliveries, NEW g \in Parts, PartCreate(e, g)
      PROVE  MailboxOf[id[1]] # MailboxOf[d] \/ IsTorn(d, h)'
  <2>1. PartNext(e, g) /\ part'[e][g] = "ready"
    BY <1>1, SetPartGives DEF PartNext, PartCreate, PartPc
  <2>2. part[d][h] = "create" /\ (d # e \/ h # g)
    BY <2>1, PartMoves
  <2>3. CASE id = << e, g >>
    <3>1. CASE MailboxOf[e] # MailboxOf[d]
      BY <2>3, <3>1
    <3>2. CASE MailboxOf[e] = MailboxOf[d]
      <4>1. h = g /\ d # e /\ part[e][h] \in InFlight /\ part[d][h] \in InFlight
        BY <1>1, <2>2, <2>3 DEF PartCreate, InFlight
      <4>2. \/ cache[MailboxOf[d]][h] = d /\ cache[MailboxOf[d]][h] = e
            \/ IsTorn(d, h)
        BY <3>2, <4>1 DEF CacheInv, IsTorn
      <4> QED
        BY <1>0, <4>1, <4>2
    <3> QED
      BY <3>1, <3>2
  <2>4. CASE id \in attRows
    BY <1>0, <2>2, <2>4 DEF CreateInv
  <2> QED
    BY <1>1, <2>3, <2>4 DEF PartCreate
<1>2. CASE attRows' \subseteq attRows
  <2>1. CASE part[d][h] = "create"
    BY <1>0, <1>2, <2>1 DEF CreateInv
  <2>2. CASE part[d][h] # "create"
    <3>0. ASSUME NEW b \in Mailboxes, Crash(b) PROVE FALSE
      BY <2>2, <3>0 DEF Crash, TypeOK
    <3>1. PICK e \in Deliveries, g \in Parts : PartNext(e, g)
      BY <2>2, <3>0, PartOrNot
    <3>2. d = e /\ h = g
      BY <2>2, <3>1, PartMoves
    <3>3. PartLookup(d, h)
      BY <3>1, <3>2, SetPartGives DEF PartNext, PartStart, PartCreate, PartAwait, PartLink, PartFail, PartPc
    <3>4. \A i \in attRows : i[2] # h
      BY <3>3, SetPartGives DEF PartLookup, PartPc
    <3> QED
      BY <1>2, <3>4
  <2> QED
    BY <2>1, <2>2
<1> QED
  BY <1>1, <1>2, RecordSteps

LEMMA OnePartStep == TypeOK /\ CreateInv /\ OnePartPerJob /\ [Next]_vars => OnePartPerJob'
<1> SUFFICES ASSUME TypeOK, CreateInv, OnePartPerJob, [Next]_vars,
                    NEW i \in attRows', NEW j \in attRows', i[2] = j[2], MailboxOf[i[1]] = MailboxOf[j[1]],
                    << MailboxOf[i[1]], i[2] >> \notin torn'
             PROVE  i = j
  BY DEF OnePartPerJob
<1>0. << MailboxOf[i[1]], i[2] >> \notin torn
  BY TornKeeps
<1>1. CASE attRows' \subseteq attRows
  BY <1>0, <1>1 DEF OnePartPerJob
<1>2. ASSUME NEW e \in Deliveries, NEW g \in Parts, PartCreate(e, g) PROVE i = j
  <2>1. attRows' = attRows \cup { << e, g >> }
    BY <1>2 DEF PartCreate
  <2>2. \A id \in attRows : id[2] = g => MailboxOf[id[1]] # MailboxOf[e] \/ << MailboxOf[e], g >> \in torn
    BY <1>2 DEF PartCreate, CreateInv, IsTorn
  <2> QED
    BY <1>0, <2>1, <2>2 DEF OnePartPerJob
<1> QED
  BY <1>1, <1>2, RecordSteps

PartInv == TypeOK /\ Waits /\ PartsActive /\ PartsOwn /\ CacheInv /\ CreateInv /\ OnePartPerJob

LEMMA PartInvInvariant == Init /\ [][Next]_vars => []PartInv
<1>1. Init => PartInv
  <2>1. Init => Waits /\ PartsActive /\ PartsOwn /\ CacheInv /\ CreateInv /\ OnePartPerJob
    BY DEF Init, Waits, PartsActive, PartsOwn, CacheInv, CreateInv, OnePartPerJob, Busy,
           InFlight
  <2> QED
    BY <2>1, InitTypeOK DEF PartInv
<1>2. PartInv /\ [Next]_vars => PartInv'
  BY TypeStep, WaitsStep, PartsActiveStep, PartsOwnStep, CacheStep, CreateStep, OnePartStep DEF PartInv
<1> QED
  BY <1>1, <1>2, PTL

\* A job makes one record of a content, however many of its emails carry it at the
\* same time: they share a promise, which a failure, the job's death or a full cache
\* withdraws; only one that a full cache drops before it is kept can be made twice
\* (getOrCreateAttachmentId).
THEOREM OnePartPerJobAlways == Spec => []OnePartPerJob
<1>1. PartInv => OnePartPerJob
  BY DEF PartInv
<1> QED
  BY <1>1, PartInvInvariant, PTL DEF Spec

Room == IsFiniteSet(Parts) /\ Cardinality(Parts) <= CacheMax

LEMMA RoomStart ==
    ASSUME Room, NEW e \in Deliveries, NEW g \in Parts, PartStart(e, g), torn = {}
    PROVE  torn' = {}
<1>1. CASE g \in Cached(MailboxOf[e])
  BY <1>1 DEF PartStart
<1>2. CASE g \notin Cached(MailboxOf[e])
  <2>1. Cached(MailboxOf[e]) \subseteq Parts /\ Cached(MailboxOf[e]) # Parts
    BY <1>2 DEF Cached
  <2>2. /\ Cardinality(Cached(MailboxOf[e])) < Cardinality(Parts)
        /\ Cardinality(Cached(MailboxOf[e])) \in Nat /\ Cardinality(Parts) \in Nat
    BY <2>1, FS_Subset, FS_CardinalityType DEF Room
  <2>3. Evicted(MailboxOf[e]) = {{}}
    BY <2>2, ConstantsAssumption DEF Evicted, Room
  <2> QED
    BY <1>2, <2>3 DEF PartStart
<1> QED
  BY <1>1, <1>2

\* No promise is dropped from a cache that has room for every attachment, so that
\* there the job makes each record once.
THEOREM RoomKeepsPromises == Spec => [](Room => torn = {})
<1>1. Init => (Room => torn = {})
  BY DEF Init
<1>2. (Room => torn = {}) /\ [Next]_vars => (Room => torn = {})'
  <2> SUFFICES ASSUME Room, torn = {}, [Next]_vars PROVE torn' = {}
    BY DEF Room
  <2>1. ASSUME NEW e \in Deliveries, NEW g \in Parts, PartNext(e, g) PROVE torn' = {}
    BY <2>1, RoomStart DEF PartNext, PartLookup, PartCreate, PartAwait, PartLink, PartFail
  <2>2. ASSUME NEW b \in Mailboxes, Crash(b) PROVE torn' = {}
    BY <2>2 DEF Crash
  <2> QED
    BY <2>1, <2>2, NextCases, ArchiveFrame, DelFrame DEF partVars, vars
<1> QED
  BY <1>1, <1>2, PTL DEF Spec

-----------------------------------------------------------------------------
(* A success lists all its attachments                                     *)

\* What a deletion does to its own state only, and what it never does.
LEMMA DelSteps ==
    ASSUME TypeOK, NEW d \in Deliveries, DelNext(d)
    PROVE  /\ \A e \in Deliveries : e # d => del'[e] = del[e] /\ todo'[e] = todo[e]
           /\ del'[d] # "idle"
<1>1. \A e \in Deliveries : e # d => todo'[e] = todo[e]
  BY DEF TypeOK, DelNext, DelStart, DelList, DelUnlink, DelCount, DelFile, DelRecord, DelEmlCount, DelEmlFile,
         DelDocument, DelRow, DelFail, NextPart
<1>2. \E where \in DelPc \ { "idle" } : del' = [del EXCEPT ![d] = where]
  BY DEF DelNext, DelStart, DelList, DelUnlink, DelCount, DelFile, DelRecord, DelEmlCount, DelEmlFile,
         DelDocument, DelRow, DelFail, NextPart, DelGo, DelPc
<1> QED
  BY <1>1, <1>2 DEF TypeOK

LEMMA DelNeverBack ==
    ASSUME TypeOK, [Next]_vars, NEW d \in Deliveries, del'[d] = "idle"
    PROVE  del[d] = "idle"
<1>1. ASSUME NEW e \in Deliveries, DelNext(e) PROVE del[d] = "idle"
  BY <1>1, DelSteps
<1>2. CASE del' = del
  BY <1>2
<1>3. ASSUME NEW b \in Mailboxes, Crash(b) PROVE del' = del
  BY <1>3 DEF Crash, delVars
<1> QED
  BY <1>1, <1>2, <1>3, NextCases, ArchiveFrame, PartFrame DEF delVars, vars

\* Only the deletion of its own email takes a link away.
LEMMA LinksKept ==
    ASSUME TypeOK, [Next]_vars, NEW l \in links, del[l[1]] = "idle"
    PROVE  l \in links'
<1>0. l[1] \in Deliveries
  BY DEF TypeOK
<1>1. ASSUME NEW e \in Deliveries, DelNext(e) PROVE l \in links'
  <2>1. CASE DelUnlink(e)
    <3>1. PICK id : links' = links \ { << e, id >> }
      BY <2>1 DEF DelUnlink
    <3>2. e # l[1]
      BY <2>1 DEF DelUnlink
    <3> QED
      BY <3>1, <3>2
  <2>2. CASE DelRow(e)
    BY <2>2 DEF DelRow
  <2>3. CASE ~ DelUnlink(e) /\ ~ DelRow(e)
    BY <1>1, <2>3 DEF DelNext, DelStart, DelList, DelCount, DelFile, DelRecord, DelEmlCount, DelEmlFile,
                      DelDocument, DelFail
  <2> QED
    BY <2>1, <2>2, <2>3
<1>2. ASSUME NEW e \in Deliveries, Gates(e) \/ Stores(e) \/ Inserts(e) \/ Ends(e) PROVE links \subseteq links'
  BY <1>2 DEF Gates, Stores, Inserts, Ends, Start, Gate, HashSelf, HashOther, Put, Adopt, PutOwn, Insert, RefInsert,
              RefLinks, RefCopy, PartsDone, Fail
<1>3. ASSUME NEW e \in Deliveries, NEW g \in Parts, PartNext(e, g) PROVE links \subseteq links'
  BY <1>3 DEF PartNext, PartStart, PartLookup, PartCreate, PartAwait, PartLink, PartFail
<1>4. ASSUME NEW b \in Mailboxes, Crash(b) PROVE links' = links
  BY <1>4 DEF Crash
<1> QED
  BY <1>1, <1>2, <1>3, <1>4, NextCases DEF vars

\* email_attachments refers to records that exist.
ForeignKey == \A l \in links : l[2] \in attRows

\* What links come, and what they refer to.
LEMMA LinksCome ==
    ASSUME TypeOK, [Next]_vars, NEW l \in links', l \notin links
    PROVE  /\ l[2] \in attRows
           /\ \/ \E e \in Deliveries : RefCopy(e)
              \/ \E e \in Deliveries, g \in Parts : PartLink(e, g)
<1>1. ASSUME NEW e \in Deliveries, Gates(e) \/ Stores(e) \/ Inserts(e) \/ Ends(e)
      PROVE  RefCopy(e) /\ l[2] \in attRows
  <2>1. RefCopy(e)
    BY <1>1 DEF Gates, Stores, Inserts, Ends, Start, Gate, HashSelf, HashOther, Put, Adopt, PutOwn, Insert, RefInsert,
                RefLinks, PartsDone, Fail
  <2>2. links' = links \cup ({e} \X copy[e]) /\ copy[e] \subseteq attRows
    BY <2>1 DEF RefCopy
  <2> QED
    BY <2>1, <2>2
<1>2. ASSUME NEW e \in Deliveries, NEW g \in Parts, PartNext(e, g) PROVE PartLink(e, g) /\ l[2] \in attRows
  <2>1. PartLink(e, g)
    BY <1>2 DEF PartNext, PartStart, PartLookup, PartCreate, PartAwait, PartFail
  <2>2. links' = links \cup { << e, partId[e][g] >> } /\ partId[e][g] \in attRows
    BY <2>1 DEF PartLink
  <2> QED
    BY <2>1, <2>2
<1>3. ASSUME NEW e \in Deliveries, DelNext(e) PROVE links' \subseteq links
  BY <1>3 DEF DelNext, DelStart, DelList, DelUnlink, DelCount, DelFile, DelRecord, DelEmlCount, DelEmlFile,
         DelDocument, DelRow, DelFail
<1>4. ASSUME NEW b \in Mailboxes, Crash(b) PROVE links' = links
  BY <1>4 DEF Crash
<1> QED
  BY <1>1, <1>2, <1>3, <1>4, NextCases DEF vars

\* Records go by DelRecord, when nothing is linked to them.
LEMMA RecordsGo ==
    ASSUME TypeOK, [Next]_vars, NEW id \in attRows, id \notin attRows'
    PROVE  /\ links' = links
           /\ \E e \in Deliveries : /\ DelRecord(e) /\ id = Current(e)
                                    /\ \A l \in links : l[2] # id
<1>1. ASSUME NEW e \in Deliveries, DelNext(e)
      PROVE  DelRecord(e) /\ id = Current(e) /\ links' = links /\ \A l \in links : l[2] # id
  <2>1. DelRecord(e)
    BY <1>1 DEF DelNext, DelStart, DelList, DelUnlink, DelCount, DelFile, DelEmlCount, DelEmlFile, DelDocument, DelRow,
                DelFail, attVars
  <2>2. attRows' = attRows \ { Current(e) } /\ links' = links /\ \A l \in links : l[2] # Current(e)
    BY <2>1 DEF DelRecord
  <2> QED
    BY <2>1, <2>2
<1>2. ASSUME NEW e \in Deliveries, NEW g \in Parts, PartNext(e, g) PROVE attRows \subseteq attRows'
  BY <1>2 DEF PartNext, PartStart, PartLookup, PartCreate, PartAwait, PartLink, PartFail, attVars
<1>3. ASSUME NEW b \in Mailboxes, Crash(b) PROVE attRows' = attRows
  BY <1>3 DEF Crash, attVars
<1> QED
  BY <1>1, <1>2, <1>3, NextCases, ArchiveFrame DEF attVars, vars

LEMMA ForeignKeyStep == TypeOK /\ ForeignKey /\ [Next]_vars => ForeignKey'
<1> SUFFICES ASSUME TypeOK, ForeignKey, [Next]_vars, NEW l \in links' PROVE l[2] \in attRows'
  BY DEF ForeignKey
<1>1. l[2] \in attRows
  BY LinksCome DEF ForeignKey
<1>2. CASE l[2] \notin attRows'
  BY <1>1, <1>2, RecordsGo
<1> QED
  BY <1>2

\* An attachment that is linked is linked to a record of its content.
IdInv == \A d \in Deliveries, h \in Parts : partId[d][h] # NoAttachment => partId[d][h][2] = h
LinkedInv ==
    \A d \in Deliveries, h \in Parts :
        part[d][h] = "linked" /\ del[d] = "idle" => /\ partId[d][h][2] = h
                                                    /\ << d, partId[d][h] >> \in links

LEMMA IdStep == TypeOK /\ Waits /\ IdInv /\ [Next]_vars => IdInv'
<1> SUFFICES ASSUME TypeOK, Waits, IdInv, [Next]_vars,
                    NEW d \in Deliveries, NEW h \in Parts, partId'[d][h] # NoAttachment
             PROVE  partId'[d][h][2] = h
  BY DEF IdInv, NoAttachment
<1>1. CASE partId' = partId
  BY <1>1 DEF IdInv
<1>2. ASSUME NEW e \in Deliveries, NEW g \in Parts, PartNext(e, g) PROVE partId'[d][h][2] = h
  <2>1. CASE PartLookup(e, g) /\ partId' # partId
    <3>1. PICK id \in attRows : id[2] = g /\ Resolved(e, g, id)
      BY <2>1 DEF PartLookup
    <3>2. id \in AttachmentIds
      BY DEF TypeOK
    <3> QED
      BY <3>1, <3>2, ResolvedGives DEF IdInv
  <2>2. CASE PartCreate(e, g)
    <3>1. << e, g >> \in AttachmentIds /\ Resolved(e, g, << e, g >>)
      BY <2>2 DEF PartCreate, AttachmentIds
    <3> QED
      BY <3>1, ResolvedGives DEF IdInv
  <2>3. CASE PartAwait(e, g) /\ partId' # partId
    <3>1. promise[e][g] \in Deliveries
      BY <2>3 DEF PartAwait, Waits
    <3>2. /\ partId[promise[e][g]][g] \in AttachmentIds \cup {NoAttachment}
          /\ Resolved(e, g, partId[promise[e][g]][g])
          /\ partId[promise[e][g]][g] # NoAttachment
      BY <2>3, <3>1 DEF PartAwait, TypeOK
    <3>3. partId[promise[e][g]][g][2] = g
      BY <3>1, <3>2 DEF IdInv
    <3> QED
      BY <3>2, <3>3, ResolvedGives DEF IdInv
  <2> QED
    BY <1>1, <1>2, <2>1, <2>2, <2>3 DEF PartNext, PartStart, PartLink, PartFail
<1>3. ASSUME NEW b \in Mailboxes, Crash(b) PROVE partId'[d][h][2] = h
  BY <1>3 DEF Crash, IdInv
<1> QED
  BY <1>1, <1>2, <1>3, NextCases, ArchiveFrame, DelFrame DEF partVars, vars

LEMMA LinkedStep == TypeOK /\ IdInv /\ LinkedInv /\ [Next]_vars => LinkedInv'
<1> SUFFICES ASSUME TypeOK, IdInv, LinkedInv, [Next]_vars,
                    NEW d \in Deliveries, NEW h \in Parts, part'[d][h] = "linked", del'[d] = "idle"
             PROVE  partId'[d][h][2] = h /\ << d, partId'[d][h] >> \in links'
  BY DEF LinkedInv
<1>0. del[d] = "idle"
  BY DelNeverBack
<1>1. CASE part[d][h] = "linked" /\ partId'[d][h] = partId[d][h]
  <2>1. << d, partId[d][h] >> \in links /\ partId[d][h][2] = h
    BY <1>0, <1>1 DEF LinkedInv
  <2>2. << d, partId[d][h] >>[1] = d
    OBVIOUS
  <2> QED
    BY <1>0, <1>1, <2>1, <2>2, LinksKept
<1>2. ASSUME NEW e \in Deliveries, NEW g \in Parts, PartNext(e, g)
      PROVE  \/ part[d][h] = "linked" /\ partId'[d][h] = partId[d][h]
             \/ PartLink(d, h)
  <2>1. CASE d # e \/ h # g
    <3>1. part[d][h] = "linked"
      BY <1>2, <2>1, PartMoves
    <3>2. partId' = partId \/ \E id : Resolved(e, g, id)
      BY <1>2 DEF PartNext, PartStart, PartLookup, PartCreate, PartAwait, PartLink, PartFail
    <3>3. partId'[d][h] = partId[d][h]
      BY <2>1, <3>2 DEF Resolved, TypeOK
    <3> QED
      BY <3>1, <3>3
  <2>2. CASE d = e /\ h = g
    BY <1>2, <2>2, SetPartGives DEF PartNext, PartStart, PartLookup, PartCreate, PartAwait, PartFail, PartPc
  <2> QED
    BY <2>1, <2>2
<1>3. CASE PartLink(d, h)
  <2>1. partId[d][h] \in attRows /\ links' = links \cup { << d, partId[d][h] >> } /\ partId' = partId
    BY <1>3, SetPartGives DEF PartLink, PartPc
  <2>2. partId[d][h] # NoAttachment
    BY <2>1, Constants DEF TypeOK, AttachmentIds, NoAttachment
  <2> QED
    BY <2>1, <2>2 DEF IdInv
<1>4. ASSUME NEW b \in Mailboxes, Crash(b) PROVE part[d][h] = "linked" /\ partId'[d][h] = partId[d][h]
  BY <1>4 DEF Crash
<1>5. CASE UNCHANGED << part, partId >>
  BY <1>1, <1>5
<1> QED
  BY <1>1, <1>2, <1>3, <1>4, <1>5, NextCases, ArchiveFrame, DelFrame DEF partVars, vars

\* A delivery about to insert a reference has seen the row it refers to.
SeenInv == \A d \in Deliveries : pc[d] \in { "refInsert", "refLinks", "refCopy" } => seen[d] # NoRow

LEMMA SeenStep == TypeOK /\ SeenInv /\ [Next]_vars => SeenInv'
<1> SUFFICES ASSUME TypeOK, SeenInv, [Next]_vars,
                    NEW d \in Deliveries, pc'[d] \in { "refInsert", "refLinks", "refCopy" }
             PROVE  seen'[d] # NoRow
  BY DEF SeenInv
<1>1. ASSUME NEW e \in Deliveries, Gates(e) PROVE seen'[d] # NoRow
  <2>1. CASE Gate(e)
    <3>1. CASE seen' = seen /\ pc'[e] # "refInsert"
      <4>1. pc[d] = pc'[d]
        BY <2>1, <3>1 DEF Gate, Go, Return, TypeOK
      <4> QED
        BY <3>1, <4>1 DEF SeenInv
    <3>2. CASE \E f \in Live : seen' = [seen EXCEPT ![e] = f]
      BY <2>1, <3>2, Constants DEF Gate, Go, Return, TypeOK, SeenInv, Live
    <3> QED
      BY <2>1, <3>1, <3>2 DEF Gate, Go, Return, TypeOK
  <2>2. CASE Start(e)
    BY <2>2 DEF Start, Go, TypeOK, SeenInv
  <2>3. CASE HashSelf(e) \/ HashOther(e)
    BY <2>3 DEF HashSelf, HashOther, Go, Return, TypeOK, SeenInv
  <2> QED
    BY <1>1, <2>1, <2>2, <2>3 DEF Gates
<1>2. ASSUME NEW e \in Deliveries, Stores(e) PROVE seen'[d] # NoRow
  BY <1>2 DEF Stores, Put, Adopt, PutOwn, Go, Return, TypeOK, SeenInv
<1>3. ASSUME NEW e \in Deliveries, Inserts(e) PROVE seen'[d] # NoRow
  BY <1>3 DEF Inserts, Insert, RefInsert, RefLinks, RefCopy, Go, Return, TypeOK, SeenInv
<1>4. ASSUME NEW e \in Deliveries, Ends(e) PROVE seen'[d] # NoRow
  BY <1>4 DEF Ends, PartsDone, Fail, Go, Return, TypeOK, SeenInv
<1>5. ASSUME NEW b \in Mailboxes, Crash(b) PROVE seen'[d] # NoRow
  BY <1>5 DEF Crash, TypeOK, SeenInv
<1>6. CASE UNCHANGED << pc, seen >>
  BY <1>6 DEF SeenInv
<1> QED
  BY <1>1, <1>2, <1>3, <1>4, <1>5, <1>6, NextCases, PartFrame, DelFrame DEF archiveVars, vars

\* Who reported success has its links, until somebody deletes the email.
SuccessInv ==
    \A d \in Deliveries :
        ~ preserve /\ result[d] = "archived" /\ seen[d] = NoRow /\ del[d] = "idle" =>
            \A h \in PartsOf[ContentOf[d]] : \E id : id[2] = h /\ << d, id >> \in links

LEMMA SuccessStep ==
    TypeOK /\ LinkedInv /\ SeenInv /\ SuccessInv /\ [Next]_vars => SuccessInv'
<1> SUFFICES ASSUME TypeOK, LinkedInv, SeenInv, SuccessInv, [Next]_vars, NEW d \in Deliveries,
                    ~ preserve', result'[d] = "archived", seen'[d] = NoRow, del'[d] = "idle",
                    NEW h \in PartsOf[ContentOf[d]]
             PROVE  \E id : id[2] = h /\ << d, id >> \in links'
  BY DEF SuccessInv
<1>0. ~ preserve /\ del[d] = "idle" /\ h \in Parts
  BY PcSteps, DelNeverBack, Constants
<1>1. CASE \E id : id[2] = h /\ << d, id >> \in links
  <2>1. PICK id : id[2] = h /\ << d, id >> \in links
    BY <1>1
  <2>2. << d, id >>[1] = d
    OBVIOUS
  <2> QED
    BY <1>0, <2>1, <2>2, LinksKept
<1>2. CASE result[d] = "archived" /\ seen[d] = NoRow
  BY <1>0, <1>1, <1>2 DEF SuccessInv
<1>3. CASE PartsDone(d)
  <2>1. part[d][h] = "linked"
    BY <1>3 DEF PartsDone, Return, TypeOK
  <2> QED
    BY <1>0, <1>1, <2>1 DEF LinkedInv
<1>4. ASSUME NEW e \in Deliveries, Gates(e) PROVE result[d] = "archived" /\ seen[d] = NoRow
  <2>1. CASE Gate(e)
    <3>1. result[d] = "archived"
      BY <2>1 DEF Gate, Return, TypeOK
    <3>2. seen' = seen \/ \E f \in Live : seen' = [seen EXCEPT ![e] = f]
      BY <2>1 DEF Gate
    <3> QED
      BY <3>1, <3>2, Constants DEF TypeOK, Live
  <2>2. CASE Start(e)
    BY <2>2 DEF Start, TypeOK
  <2>3. CASE HashSelf(e) \/ HashOther(e)
    BY <2>3 DEF HashSelf, HashOther, Return, TypeOK
  <2> QED
    BY <1>4, <2>1, <2>2, <2>3 DEF Gates
<1>5. ASSUME NEW e \in Deliveries, Stores(e) PROVE result[d] = "archived" /\ seen[d] = NoRow
  BY <1>5 DEF Stores, Put, Adopt, PutOwn, Return, TypeOK
<1>6. ASSUME NEW e \in Deliveries, Inserts(e) PROVE result[d] = "archived" /\ seen[d] = NoRow
  BY <1>0, <1>6 DEF Inserts, Insert, RefInsert, RefLinks, RefCopy, Return, TypeOK, SeenInv
<1>7. ASSUME NEW e \in Deliveries, Ends(e) PROVE PartsDone(d) \/ (result[d] = "archived" /\ seen[d] = NoRow)
  BY <1>7 DEF Ends, PartsDone, Fail, Return, TypeOK
<1>8. ASSUME NEW b \in Mailboxes, Crash(b) PROVE result[d] = "archived" /\ seen[d] = NoRow
  BY <1>8 DEF Crash
<1>9. CASE UNCHANGED << result, seen >>
  BY <1>2, <1>9
<1> QED
  BY <1>2, <1>3, <1>4, <1>5, <1>6, <1>7, <1>8, <1>9, NextCases, PartFrame, DelFrame DEF archiveVars, vars

SuccessfulInv == TypeOK /\ Waits /\ ForeignKey /\ IdInv /\ LinkedInv /\ SeenInv /\ SuccessInv

\* A message archived anew and reported as a success lists all its attachments for
\* as long as nobody deletes it, whatever failed, died or was deleted beside it
\* (processEmail; the foreign key keeps other deletions off its records).
THEOREM ArchivedWithPartsAlways == Spec => []ArchivedWithParts
<1>1. Init => SuccessfulInv
  <2>1. Init => Waits /\ ForeignKey /\ IdInv /\ LinkedInv /\ SeenInv /\ SuccessInv
    BY DEF Init, Waits, ForeignKey, IdInv, LinkedInv, SeenInv, SuccessInv
  <2> QED
    BY <2>1, InitTypeOK DEF SuccessfulInv
<1>2. SuccessfulInv /\ [Next]_vars => SuccessfulInv'
  BY TypeStep, WaitsStep, ForeignKeyStep, IdStep, LinkedStep, SeenStep, SuccessStep DEF SuccessfulInv
<1>3. SuccessfulInv => ArchivedWithParts
  <2> SUFFICES ASSUME SuccessfulInv, NEW d \in Deliveries, Untouched(d), ~ preserve, result[d] = "archived",
                      seen[d] = NoRow, NEW h \in PartsOf[ContentOf[d]]
               PROVE  \E id \in attRows : id[2] = h /\ << d, id >> \in links
    BY DEF ArchivedWithParts, HasAllParts
  <2>1. PICK id : id[2] = h /\ << d, id >> \in links
    BY DEF SuccessfulInv, SuccessInv, Untouched
  <2>2. << d, id >>[2] \in attRows
    BY <2>1 DEF SuccessfulInv, ForeignKey
  <2> QED
    BY <2>1, <2>2
<1> QED
  BY <1>1, <1>2, <1>3, PTL DEF Spec

-----------------------------------------------------------------------------
(* Nothing another email needs is taken                                    *)

\* Deletions keep away from archiving, and a record goes with its file.
Apart == "racingDelete" \notin Env /\ "recordFail" \notin Env

\* While mail is archived no deletion is under way, nor half done.
QuietInv ==
    \A d, e \in Deliveries : pc[d] \in Active => del[e] \in { "idle", "done" }

\* A deleted row is not inserted again; one being deleted is there, and once its
\* file is about to go no other row names it.
DeletedInv ==
    \A d \in Deliveries :
        /\ del[d] = "done" => rows[d] = NoRow /\ pc[d] \notin Active
        /\ del[d] \notin { "idle", "done" } => rows[d] # NoRow
        /\ del[d] = "emlFile" => \A e \in Live \ {d} : rows[e].path # rows[d].path

LEMMA PcActive ==
    ASSUME TypeOK, [Next]_vars, NEW d \in Deliveries, pc'[d] \in Active
    PROVE  pc[d] \in Active \/ Start(d)
  BY PcSteps DEF TypeOK, Active

LEMMA QuietStep == Apart /\ TypeOK /\ QuietInv /\ [Next]_vars => QuietInv'
<1> SUFFICES ASSUME Apart, TypeOK, QuietInv, [Next]_vars,
                    NEW d \in Deliveries, NEW e \in Deliveries, pc'[d] \in Active
             PROVE  del'[e] \in { "idle", "done" }
  BY DEF QuietInv
<1>1. ASSUME NEW f \in Deliveries, DelNext(f) PROVE del'[e] \in { "idle", "done" }
  <2>1. pc' = pc
    BY <1>1, DelFrame DEF archiveVars
  <2>2. pc[d] \in Active
    BY <2>1
  <2>3. del[f] \in { "idle", "done" } /\ del[e] \in { "idle", "done" }
    BY <2>2 DEF QuietInv
  <2>4. ~ DelStart(f)
    BY <2>2 DEF DelStart, DeletionAllowed, Apart
  <2> QED
    BY <1>1, <2>3, <2>4 DEF DelNext, DelList, DelUnlink, DelCount, DelFile, DelRecord, DelEmlCount, DelEmlFile,
                            DelDocument, DelRow, DelFail
<1>2. CASE del' = del
  <2>1. CASE pc[d] \in Active
    BY <1>2, <2>1 DEF QuietInv
  <2>2. CASE Start(d)
    BY <1>2, <2>2 DEF Start, ArchivingAllowed, Apart
  <2> QED
    BY <2>1, <2>2, PcActive
<1>3. ASSUME NEW b \in Mailboxes, Crash(b) PROVE del' = del
  BY <1>3 DEF Crash, delVars
<1> QED
  BY <1>1, <1>2, <1>3, NextCases, ArchiveFrame, PartFrame DEF delVars, vars

LEMMA DeletedStep == TypeOK /\ QuietInv /\ DeletedInv /\ [Next]_vars => DeletedInv'
<1> SUFFICES ASSUME TypeOK, QuietInv, DeletedInv, [Next]_vars, NEW d \in Deliveries
             PROVE  /\ del'[d] = "done" => rows'[d] = NoRow /\ pc'[d] \notin Active
                    /\ del'[d] \notin { "idle", "done" } => rows'[d] # NoRow
                    /\ del'[d] = "emlFile" =>
                         \A e \in Deliveries \ {d} : rows'[e] # NoRow => rows'[e].path # rows'[d].path
  BY DEF DeletedInv, Live
<1>1. ASSUME NEW f \in Deliveries, DelNext(f)
      PROVE  /\ del'[d] = "done" => rows'[d] = NoRow /\ pc'[d] \notin Active
             /\ del'[d] \notin { "idle", "done" } => rows'[d] # NoRow
             /\ del'[d] = "emlFile" =>
                  \A e \in Deliveries \ {d} : rows'[e] # NoRow => rows'[e].path # rows'[d].path
  <2>1. pc' = pc
    BY <1>1, DelFrame DEF archiveVars
  <2>2. CASE DelRow(f)
    <3>1. del[f] \notin { "idle", "done" }
      BY <2>2 DEF DelRow
    <3>2. pc[d] \notin Active
      BY <3>1 DEF QuietInv
    <3> QED
      BY <2>1, <2>2, <3>2 DEF DelRow, DelGo, DeletedInv, TypeOK, Live
  <2>3. CASE ~ DelRow(f)
    <3>1. rows' = rows
      BY <1>1, <2>3 DEF DelNext, DelStart, DelList, DelUnlink, DelCount, DelFile, DelRecord, DelEmlCount, DelEmlFile,
                        DelDocument, DelFail
    <3>2. CASE d # f
      BY <1>1, <2>1, <3>1, <3>2, DelSteps DEF DeletedInv, Live
    <3>3. CASE d = f
      <4>1. del[d] # "done" /\ (del[d] = "idle" => rows[d] # NoRow)
        BY <1>1, <3>3 DEF DelNext, DelStart, DelList, DelUnlink, DelCount, DelFile, DelRecord, DelEmlCount, DelEmlFile,
                          DelDocument, DelRow, DelFail
      <4>2. rows[d] # NoRow
        BY <4>1 DEF DeletedInv
      <4>3. del'[d] # "done"
        BY <1>1, <2>3, <3>3 DEF DelNext, DelStart, DelList, DelUnlink, DelCount, DelFile, DelRecord, DelEmlCount,
                                DelEmlFile, DelDocument, DelFail, NextPart, DelGo, TypeOK
      <4>4. del'[d] = "emlFile" => DelEmlCount(d)
        BY <1>1, <2>3, <3>3 DEF DelNext, DelStart, DelList, DelUnlink, DelCount, DelFile, DelRecord,
                                DelEmlFile, DelDocument, DelFail, NextPart, DelGo, TypeOK
      <4>5. del'[d] = "emlFile" => \A e \in Live \ {d} : rows[e].path # rows[d].path
        BY <4>4 DEF DelEmlCount, DelGo, TypeOK
      <4> QED
        BY <3>1, <4>2, <4>3, <4>5 DEF Live
    <3> QED
      BY <3>2, <3>3
  <2> QED
    BY <2>2, <2>3
<1>2. CASE del' = del
  <2>1. del[d] \notin { "idle", "done" } => \A e \in Deliveries : pc[e] \notin Active
    BY DEF QuietInv
  <2>2. rows' = rows \/ (\E e \in Deliveries : pc[e] \in Active /\ rows' = [rows EXCEPT ![e] = place[e]])
        \/ \E e \in Deliveries : DelRow(e)
    BY RowSteps DEF Active
  <2>3. ~ \E e \in Deliveries : DelRow(e)
    BY <1>2 DEF DelRow, DelGo, TypeOK
  <2>4. pc[d] \notin Active /\ del[d] = "done" => pc'[d] \notin Active
    BY PcActive DEF Start
  <2>5. CASE rows' = rows
    BY <1>2, <2>4, <2>5 DEF DeletedInv, Live
  <2>6. CASE rows' # rows
    <3>1. PICK e \in Deliveries : pc[e] \in Active /\ rows' = [rows EXCEPT ![e] = place[e]]
      BY <2>2, <2>3, <2>6
    <3>2. del[d] \in { "idle", "done" }
      BY <3>1 DEF QuietInv
    <3>3. del[d] = "done" => d # e
      BY <3>1 DEF DeletedInv
    <3> QED
      BY <1>2, <2>4, <3>1, <3>2, <3>3 DEF DeletedInv, TypeOK
  <2> QED
    BY <2>5, <2>6
<1>3. ASSUME NEW b \in Mailboxes, Crash(b) PROVE del' = del
  BY <1>3 DEF Crash, delVars
<1> QED
  BY <1>1, <1>2, <1>3, NextCases, ArchiveFrame, PartFrame DEF delVars, vars

\* What a row about to be inserted names is stored; what is at a content-addressed
\* path are these bytes.
PlaceInv ==
    \A d \in Deliveries : place[d] # NoRow =>
        pc[d] \in { "insert", "refInsert" } /\ objects[place[d].path] = place[d].hash
OwnInv == \A d \in Deliveries : objects[OwnPath(d)] \in { NoContent, ContentOf[d] }

LEMMA ObjectSteps ==
    ASSUME TypeOK, [Next]_vars
    PROVE  \/ objects' = objects
           \/ \E e \in Deliveries : /\ objects[PathOf[e]] = NoContent
                                    /\ objects' = [objects EXCEPT ![PathOf[e]] = ContentOf[e]]
           \/ \E e \in Deliveries : objects' = [objects EXCEPT ![OwnPath(e)] = ContentOf[e]]
           \/ \E e \in Deliveries : DelEmlFile(e)
<1>1. ASSUME NEW e \in Deliveries, Stores(e)
      PROVE  \/ objects' = objects
             \/ /\ objects[PathOf[e]] = NoContent
                /\ objects' = [objects EXCEPT ![PathOf[e]] = ContentOf[e]]
             \/ objects' = [objects EXCEPT ![OwnPath(e)] = ContentOf[e]]
  BY <1>1 DEF Stores, Put, Adopt, PutOwn
<1>2. ASSUME NEW e \in Deliveries, Gates(e) \/ Inserts(e) \/ Ends(e) PROVE objects' = objects
  BY <1>2 DEF Gates, Inserts, Ends, Start, Gate, HashSelf, HashOther, Insert, RefInsert, RefLinks, RefCopy, PartsDone,
              Fail
<1>3. ASSUME NEW e \in Deliveries, DelNext(e) PROVE objects' = objects \/ DelEmlFile(e)
  BY <1>3 DEF DelNext, DelStart, DelList, DelUnlink, DelCount, DelFile, DelRecord, DelEmlCount, DelDocument, DelRow,
              DelFail
<1>4. ASSUME NEW b \in Mailboxes, Crash(b) PROVE objects' = objects
  BY <1>4 DEF Crash
<1> QED
  BY <1>1, <1>2, <1>3, <1>4, NextCases, PartFrame DEF vars

LEMMA OwnStep == TypeOK /\ OwnInv /\ [Next]_vars => OwnInv'
<1> SUFFICES ASSUME TypeOK, OwnInv, [Next]_vars, NEW d \in Deliveries
             PROVE  objects'[OwnPath(d)] \in { NoContent, ContentOf[d] }
  BY DEF OwnInv, OwnPath
<1>0. OwnPath(d) \in Paths /\ objects \in [Paths -> Contents \cup {NoContent}]
  BY Constants DEF TypeOK
<1>1. CASE objects' = objects
  BY <1>1 DEF OwnInv
<1>2. ASSUME NEW e \in Deliveries, objects' = [objects EXCEPT ![PathOf[e]] = ContentOf[e]]
      PROVE  objects'[OwnPath(d)] = objects[OwnPath(d)]
  <2>1. OwnPath(d) # PathOf[e]
    BY PathsAssumption DEF OwnPath
  <2> QED
    BY <1>0, <1>2, <2>1
<1>3. ASSUME NEW e \in Deliveries, objects' = [objects EXCEPT ![OwnPath(e)] = ContentOf[e]]
      PROVE  objects'[OwnPath(d)] \in { NoContent, ContentOf[d] }
  <2>1. CASE OwnPath(e) = OwnPath(d)
    <3>1. ContentOf[e] = ContentOf[d]
      BY <2>1 DEF OwnPath
    <3> QED
      BY <1>0, <1>3, <2>1, <3>1
  <2>2. CASE OwnPath(e) # OwnPath(d)
    BY <1>0, <1>3, <2>2 DEF OwnInv
  <2> QED
    BY <2>1, <2>2
<1>4. ASSUME NEW e \in Deliveries, DelEmlFile(e) PROVE objects'[OwnPath(d)] \in { NoContent, ContentOf[d] }
  <2>1. objects' = [objects EXCEPT ![rows[e].path] = NoContent]
    BY <1>4 DEF DelEmlFile
  <2> QED
    BY <1>0, <2>1 DEF OwnInv
<1> QED
  BY <1>1, <1>2, <1>3, <1>4, ObjectSteps DEF OwnInv

\* A stored file stays as it is until a deletion takes it.
LEMMA ObjectsKept ==
    ASSUME TypeOK, OwnInv, [Next]_vars, NEW p \in Paths, objects[p] # NoContent
    PROVE  objects'[p] = objects[p] \/ \E e \in Deliveries : DelEmlFile(e) /\ p = rows[e].path
<1>0. objects \in [Paths -> Contents \cup {NoContent}]
  BY DEF TypeOK
<1>1. ASSUME NEW e \in Deliveries, objects[PathOf[e]] = NoContent,
             objects' = [objects EXCEPT ![PathOf[e]] = ContentOf[e]]
      PROVE  objects'[p] = objects[p]
  BY <1>0, <1>1
<1>2. ASSUME NEW e \in Deliveries, objects' = [objects EXCEPT ![OwnPath(e)] = ContentOf[e]]
      PROVE  objects'[p] = objects[p]
  BY <1>0, <1>2 DEF OwnInv
<1>3. ASSUME NEW e \in Deliveries, DelEmlFile(e), p # rows[e].path PROVE objects'[p] = objects[p]
  BY <1>0, <1>3 DEF DelEmlFile
<1> QED
  BY <1>1, <1>2, <1>3, ObjectSteps

LEMMA EmailsStep ==
    TypeOK /\ QuietInv /\ DeletedInv /\ PlaceInv /\ OwnInv /\ EmailsBacked /\ [Next]_vars => EmailsBacked'
<1> SUFFICES ASSUME TypeOK, QuietInv, DeletedInv, PlaceInv, OwnInv, EmailsBacked, [Next]_vars,
                    NEW d \in Deliveries, rows'[d] # NoRow, del'[d] = "idle"
             PROVE  objects'[rows'[d].path] = rows'[d].hash
  BY DEF EmailsBacked, Untouched
<1>0. /\ del[d] = "idle" /\ rows \in [Deliveries -> Row \cup {NoRow}] /\ place \in [Deliveries -> Row \cup {NoRow}]
      /\ NoContent \notin Contents
  BY DelNeverBack, ConstantsAssumption DEF TypeOK
<1>1. CASE rows'[d] = rows[d]
  <2>1. objects[rows[d].path] = rows[d].hash /\ rows[d].path \in Paths /\ rows[d].hash # NoContent
    BY <1>0, <1>1 DEF EmailsBacked, Untouched, Row
  <2>2. ASSUME NEW e \in Deliveries, DelEmlFile(e) PROVE rows[d].path # rows[e].path
    BY <1>0, <1>1, <2>2 DEF DelEmlFile, DeletedInv, Live
  <2> QED
    BY <1>1, <2>1, <2>2, ObjectsKept
<1>2. CASE rows'[d] # rows[d]
  <2>1. pc[d] \in Active /\ rows'[d] = place[d]
    BY <1>2, RowSteps DEF TypeOK, Active
  <2>2. objects[place[d].path] = place[d].hash /\ place[d].path \in Paths /\ place[d].hash # NoContent
    BY <1>0, <2>1 DEF PlaceInv, Row
  <2>3. ASSUME NEW e \in Deliveries, DelEmlFile(e) PROVE FALSE
    BY <2>1, <2>3 DEF DelEmlFile, QuietInv
  <2> QED
    BY <2>1, <2>2, <2>3, ObjectsKept
<1> QED
  BY <1>1, <1>2

LEMMA PlaceStep ==
    TypeOK /\ QuietInv /\ DeletedInv /\ PlaceInv /\ OwnInv /\ EmailsBacked /\ [Next]_vars => PlaceInv'
<1> SUFFICES ASSUME TypeOK, QuietInv, DeletedInv, PlaceInv, OwnInv, EmailsBacked, [Next]_vars,
                    NEW d \in Deliveries, place'[d] # NoRow
             PROVE  pc'[d] \in { "insert", "refInsert" } /\ objects'[place'[d].path] = place'[d].hash
  BY DEF PlaceInv
<1>0. /\ rows \in [Deliveries -> Row \cup {NoRow}] /\ place \in [Deliveries -> Row \cup {NoRow}]
      /\ NoContent \notin Contents
      /\ pc \in [Deliveries -> Active \cup { "idle", "done" }]
  BY ConstantsAssumption DEF TypeOK
<1>1. CASE place'[d] = place[d]
  <2>1. /\ pc[d] \in { "insert", "refInsert" } /\ objects[place[d].path] = place[d].hash
        /\ place[d].path \in Paths /\ place[d].hash # NoContent
    BY <1>0, <1>1 DEF PlaceInv, Row
  <2>2. ASSUME NEW e \in Deliveries, DelEmlFile(e) PROVE FALSE
    BY <2>1, <2>2 DEF DelEmlFile, QuietInv, Active
  <2>3. objects'[place[d].path] = place[d].hash
    BY <2>1, <2>2, ObjectsKept
  <2>4. CASE pc'[d] # pc[d]
    <3>1. ASSUME NEW e \in Deliveries, Inserts(e) PROVE FALSE
      BY <1>0, <1>1, <2>1, <2>4, <3>1 DEF Inserts, Insert, RefInsert, RefLinks, RefCopy, InsertRow, Go, Return
    <3>2. ASSUME NEW e \in Deliveries, Gates(e) \/ Stores(e) \/ Ends(e) PROVE FALSE
      BY <1>0, <1>1, <2>1, <2>4, <3>2 DEF Gates, Stores, Ends, Start, Gate, HashSelf, HashOther, Put, Adopt, PutOwn,
          PartsDone, Fail, Go, Return
    <3>3. ASSUME NEW b \in Mailboxes, Crash(b) PROVE FALSE
      BY <1>1, <2>4, <3>3 DEF Crash
    <3> QED
      BY <2>4, <3>1, <3>2, <3>3, NextCases, PartFrame, DelFrame DEF archiveVars, vars
  <2> QED
    BY <1>1, <2>1, <2>3, <2>4
<1>2. CASE place'[d] # place[d]
  <2>0. ASSUME NEW f \in Live, pc[d] \in Active
        PROVE  objects[rows[f].path] = rows[f].hash
    BY <2>0 DEF Live, QuietInv, DeletedInv, EmailsBacked, Untouched
  <2>1. ASSUME NEW e \in Deliveries, Gates(e) PROVE pc'[d] \in { "insert", "refInsert" } /\ objects'[place'[d].path] = place'[d].hash
    <3>1. CASE Gate(e)
      <4>1. /\ e = d /\ pc[d] \in Active /\ pc'[d] = "refInsert" /\ objects' = objects
            /\ \E f \in Live : place'[d] = rows[f]
        BY <1>0, <1>2, <3>1 DEF Gate, Go, Return, Active
      <4> QED
        BY <2>0, <4>1
    <3>2. CASE HashOther(e)
      <4>1. PICK f \in Live : StoredAt(e, rows[f].path, ContentOf[e]) /\ rows[f].hash = ContentOf[e]
        BY <1>2, <3>2 DEF HashOther
      <4>2. e = d
        BY <1>2, <4>1, OwnBytes
      <4>3. place'[d].path = rows[f].path /\ place'[d].hash = rows[f].hash
        BY <4>1, <4>2, OwnBytes
      <4>4. pc[d] \in Active /\ pc'[d] = "insert" /\ objects' = objects
        BY <1>0, <1>2, <3>2, <4>2 DEF HashOther, Go, Active
      <4> QED
        BY <2>0, <4>3, <4>4
    <3> QED
      BY <1>2, <2>1, <3>1, <3>2 DEF Gates, Start, HashSelf
  <2>2. ASSUME NEW e \in Deliveries, Stores(e) PROVE pc'[d] \in { "insert", "refInsert" } /\ objects'[place'[d].path] = place'[d].hash
    <3>0. objects \in [Paths -> Contents \cup {NoContent}] /\ PathOf[e] \in Paths /\ OwnPath(e) \in Paths
      BY Constants DEF TypeOK
    <3>1. PICK path, hash : /\ StoredAt(e, path, hash) /\ objects'[path] = hash
                            /\ pc' = [pc EXCEPT ![e] = "insert"]
      <4>1. CASE Put(e)
        BY <1>2, <3>0, <4>1 DEF Put, Go
      <4>2. CASE Adopt(e)
        BY <1>2, <4>2 DEF Adopt, Go
      <4>3. CASE PutOwn(e)
        BY <3>0, <4>3 DEF PutOwn, Go
      <4> QED
        BY <2>2, <4>1, <4>2, <4>3 DEF Stores
    <3>2. e = d
      BY <1>2, <3>1, OwnBytes
    <3> QED
      BY <1>0, <3>1, <3>2, OwnBytes
  <2>3. ASSUME NEW e \in Deliveries, Inserts(e) \/ Ends(e) PROVE FALSE
    BY <1>0, <1>2, <2>3 DEF Inserts, Ends, Insert, RefInsert, RefLinks, RefCopy, InsertRow, PartsDone, Fail
  <2>4. ASSUME NEW b \in Mailboxes, Crash(b) PROVE FALSE
    BY <1>2, <2>4 DEF Crash
  <2> QED
    BY <1>2, <2>1, <2>2, <2>3, <2>4, NextCases, PartFrame, DelFrame DEF archiveVars, vars
<1> QED
  BY <1>1, <1>2

\* A record is without its file only while its deletion is at that very record ...
FilesInv ==
    \A id \in attRows : id \notin attFiles => \E d \in Deliveries : del[d] = "record" /\ id = Current(d)

\* ... and nothing is linked to what a deletion is about to take.
UnlinkedInv ==
    \A d \in Deliveries, l \in links : del[d] \in { "file", "record" } => l[2] # Current(d)

LinkedFiles == \A l \in links : l[2] \in attRows \cap attFiles

LEMMA SameCurrent ==
    ASSUME NEW d \in Deliveries, todo'[d] = todo[d]
    PROVE  Current(d)' = Current(d)
  BY DEF Current

\* Links come from archiving only, which no deletion runs beside.
LEMMA LinksQuiet ==
    ASSUME TypeOK, PartsActive, QuietInv, [Next]_vars, NEW l \in links', l \notin links, NEW d \in Deliveries
    PROVE  del[d] \in { "idle", "done" } /\ del' = del
<1>1. ASSUME NEW e \in Deliveries, RefCopy(e) PROVE del[d] \in { "idle", "done" } /\ del' = del
  BY <1>1 DEF RefCopy, QuietInv, Active, delVars
<1>2. ASSUME NEW e \in Deliveries, NEW g \in Parts, PartLink(e, g) PROVE del[d] \in { "idle", "done" } /\ del' = del
  <2>1. pc[e] = "parts" /\ del' = del
    BY <1>2 DEF PartLink, PartsActive, Busy, delVars
  <2> QED
    BY <2>1 DEF QuietInv, Active
<1> QED
  BY <1>1, <1>2, LinksCome

LEMMA UnlinkedStep ==
    TypeOK /\ PartsActive /\ QuietInv /\ UnlinkedInv /\ [Next]_vars => UnlinkedInv'
<1> SUFFICES ASSUME TypeOK, PartsActive, QuietInv, UnlinkedInv, [Next]_vars,
                    NEW d \in Deliveries, NEW l \in links', del'[d] \in { "file", "record" }
             PROVE  l[2] # Current(d)'
  BY DEF UnlinkedInv
<1>1. l \in links
  BY LinksQuiet
<1>2. CASE del'[d] = del[d] /\ todo'[d] = todo[d]
  BY <1>1, <1>2, SameCurrent DEF UnlinkedInv
<1>3. ASSUME NEW e \in Deliveries, DelNext(e) PROVE l[2] # Current(d)'
  <2>1. CASE d # e
    BY <1>2, <1>3, <2>1, DelSteps
  <2>2. CASE d = e
    <3>1. todo' = todo /\ (del[d] = "file" \/ \A k \in links : k[2] # Current(d))
      BY <1>3, <2>2 DEF DelNext, DelStart, DelList, DelUnlink, DelCount, DelFile, DelRecord, DelEmlCount, DelEmlFile,
                        DelDocument, DelRow, DelFail, NextPart, DelGo, TypeOK
    <3> QED
      BY <1>1, <3>1, SameCurrent DEF UnlinkedInv
  <2> QED
    BY <2>1, <2>2
<1>4. ASSUME NEW b \in Mailboxes, Crash(b) PROVE UNCHANGED delVars
  BY <1>4 DEF Crash
<1> QED
  BY <1>2, <1>3, <1>4, NextCases, ArchiveFrame, PartFrame DEF delVars, vars

\* Files come with their records, and go by DelFile.
LEMMA FileSteps ==
    ASSUME TypeOK, [Next]_vars
    PROVE  \/ attVars' = attVars
           \/ \E id : attRows' = attRows \cup {id} /\ attFiles' = attFiles \cup {id} /\ UNCHANGED delVars
           \/ \E e \in Deliveries : DelFile(e) \/ DelRecord(e)
<1>1. ASSUME NEW e \in Deliveries, NEW g \in Parts, PartNext(e, g)
      PROVE  \/ attVars' = attVars
             \/ \E id : attRows' = attRows \cup {id} /\ attFiles' = attFiles \cup {id} /\ UNCHANGED delVars
  BY <1>1 DEF PartNext, PartStart, PartLookup, PartCreate, PartAwait, PartLink, PartFail
<1>2. ASSUME NEW e \in Deliveries, DelNext(e) PROVE attVars' = attVars \/ DelFile(e) \/ DelRecord(e)
  BY <1>2 DEF DelNext, DelStart, DelList, DelUnlink, DelCount, DelEmlCount, DelEmlFile, DelDocument, DelRow, DelFail
<1>3. ASSUME NEW b \in Mailboxes, Crash(b) PROVE attVars' = attVars
  BY <1>3 DEF Crash
<1> QED
  BY <1>1, <1>2, <1>3, NextCases, ArchiveFrame DEF vars

LEMMA FilesStep ==
    Apart /\ TypeOK /\ UnlinkedInv /\ FilesInv /\ [Next]_vars => FilesInv'
<1> SUFFICES ASSUME Apart, TypeOK, UnlinkedInv, FilesInv, [Next]_vars,
                    NEW id \in attRows', id \notin attFiles'
             PROVE  \E d \in Deliveries : del'[d] = "record" /\ id = Current(d)'
  BY DEF FilesInv
<1>1. CASE \E e \in Deliveries : DelFile(e) /\ id = Current(e)
  BY <1>1, SameCurrent DEF DelFile, DelGo, TypeOK
<1>2. CASE ~ \E e \in Deliveries : DelFile(e) /\ id = Current(e)
  <2>1. id \in attRows /\ id \notin attFiles /\ ~ \E e \in Deliveries : DelRecord(e) /\ id = Current(e)
    <3>1. ASSUME NEW e \in Deliveries, DelRecord(e)
          PROVE  id \in attRows /\ id \notin attFiles /\ id # Current(e)
      BY <3>1 DEF DelRecord, UnlinkedInv
    <3>2. ASSUME NEW e \in Deliveries, DelFile(e) PROVE id \in attRows /\ id \notin attFiles
      BY <1>2, <3>2 DEF DelFile
    <3>3. ASSUME NEW e \in Deliveries, DelFile(e) PROVE ~ \E f \in Deliveries : DelRecord(f) /\ id = Current(f)
      BY <3>1
    <3> QED
      BY <3>1, <3>2, FileSteps DEF attVars
  <2>2. PICK d \in Deliveries : del[d] = "record" /\ id = Current(d)
    BY <2>1 DEF FilesInv
  <2>3. ASSUME NEW e \in Deliveries, DelNext(e) PROVE del'[d] = "record" /\ todo'[d] = todo[d]
    <3>1. CASE e = d
      <4>1. DelRecord(d)
        BY <2>2, <2>3, <3>1 DEF Apart, Spend, DelNext, DelStart, DelList, DelUnlink, DelCount, DelFile, DelEmlCount,
                                DelEmlFile, DelDocument, DelRow, DelFail
      <4> QED
        BY <2>1, <2>2, <4>1
    <3>2. CASE e # d
      BY <2>2, <2>3, <3>2, DelSteps
    <3> QED
      BY <3>1, <3>2
  <2>4. ASSUME NEW b \in Mailboxes, Crash(b) PROVE UNCHANGED delVars
    BY <2>4 DEF Crash
  <2>5. del'[d] = "record" /\ todo'[d] = todo[d]
    BY <2>2, <2>3, <2>4, NextCases, ArchiveFrame, PartFrame DEF delVars, vars
  <2> QED
    BY <2>2, <2>5, SameCurrent
<1> QED
  BY <1>1, <1>2

LEMMA LinkedFilesStep ==
    TypeOK /\ PartsActive /\ QuietInv /\ UnlinkedInv /\ FilesInv /\ LinkedFiles /\ [Next]_vars => LinkedFiles'
<1> SUFFICES ASSUME TypeOK, PartsActive, QuietInv, UnlinkedInv, FilesInv, LinkedFiles, [Next]_vars, NEW l \in links'
             PROVE  l[2] \in attRows' \cap attFiles'
  BY DEF LinkedFiles
<1>1. l[2] \in attRows \cap attFiles
  <2>1. CASE l \in links
    BY <2>1 DEF LinkedFiles
  <2>2. CASE l \notin links
    <3>1. l[2] \in attRows
      BY <2>2, LinksCome
    <3>2. \A d \in Deliveries : del[d] # "record"
      BY <2>2, LinksQuiet
    <3> QED
      BY <3>1, <3>2 DEF FilesInv
  <2> QED
    BY <2>1, <2>2
<1>2. ASSUME NEW e \in Deliveries, DelFile(e) \/ DelRecord(e) PROVE l[2] \in attRows' \cap attFiles'
  <2>1. l \in links /\ del[e] \in { "file", "record" }
    BY <1>2 DEF DelFile, DelRecord
  <2>2. l[2] # Current(e)
    BY <2>1 DEF UnlinkedInv
  <2>3. CASE DelFile(e)
    BY <1>1, <2>2, <2>3 DEF DelFile
  <2>4. CASE DelRecord(e)
    BY <1>1, <2>2, <2>4 DEF DelRecord
  <2> QED
    BY <1>2, <2>3, <2>4
<1> QED
  BY <1>1, <1>2, FileSteps DEF attVars

EmlInv == QuietInv /\ DeletedInv /\ PlaceInv /\ OwnInv /\ EmailsBacked
FileInv == UnlinkedInv /\ FilesInv /\ LinkedFiles
BackedInv == PartInv /\ EmlInv /\ FileInv

\* As long as deletions keep away from archiving, and a deletion that took an
\* attachment's file takes its record too, a deletion takes nothing another email
\* still needs: each email nobody deletes has its file with its bytes, each link
\* its record and file, whatever fails or dies (deleteArchivedEmail's counts,
\* storeEmailOrAdopt).
THEOREM BackedAlways == Apart => (Spec => []Backed)
<1>1. Init => EmlInv /\ FileInv
  <2>1. Init => \A d \in Deliveries : OwnPath(d) \in Paths
    BY Constants
  <2>2. Init => EmlInv
    BY <2>1 DEF Init, EmlInv, QuietInv, DeletedInv, PlaceInv, OwnInv, EmailsBacked, Untouched, Active
  <2>3. Init => FileInv
    BY DEF Init, FileInv, UnlinkedInv, FilesInv, LinkedFiles
  <2> QED
    BY <2>2, <2>3
<1>2. ASSUME Apart PROVE PartInv /\ EmlInv /\ FileInv /\ [Next]_vars => (EmlInv /\ FileInv)'
  <2>1. Apart
    BY <1>2
  <2> QED
    BY <2>1, QuietStep, DeletedStep, PlaceStep, OwnStep, EmailsStep, UnlinkedStep, FilesStep, LinkedFilesStep
       DEF PartInv, EmlInv, FileInv
<1>3. EmlInv /\ FileInv => Backed
  BY DEF EmlInv, FileInv, LinkedFiles, Backed, PartsBacked
<1>4. Init /\ [][Next]_vars => []PartInv
  BY PartInvInvariant
<1>5. ASSUME Apart PROVE Init /\ [][Next]_vars => []Backed
  <2>1. PartInv /\ EmlInv /\ FileInv /\ [Next]_vars => (EmlInv /\ FileInv)'
    BY <1>2, <1>5
  <2> QED
    BY <1>1, <1>3, <1>4, <2>1, PTL
<1> QED
  BY <1>5 DEF Spec
=============================================================================
