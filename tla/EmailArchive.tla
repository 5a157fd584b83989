---------------------------- MODULE EmailArchive ----------------------------
(***************************************************************************)
(* Archiving and deleting the emails of one source: processEmail as the    *)
(* mailbox jobs run it side by side, the stored .eml files, the            *)
(* archived_emails rows, the attachments shared between emails, and        *)
(* deleteArchivedEmail with its reference counts.  There is no transaction *)
(* and no unique index, so an action is one statement or storage call.     *)
(***************************************************************************)
EXTENDS Naturals, FiniteSets

CONSTANTS
    Deliveries,     \* a message as one mailbox's job offers it; also its row's id
    MailboxOf,      \* the mailbox of each
    ContentOf,      \* its bytes (a content stands for its sha256 too)
    KeyOf,          \* its message_id_header: the header, or a generated key
    PathOf,         \* the path its folder and id give
    HeaderIn,       \* the Message-ID header in a content, or NoHeader
    PartsOf,        \* the attachments in a content
    NoHeader, NoContent, NoRow,
    CacheMax,       \* ATTACHMENT_CACHE_MAX
    Worlds,         \* bound: which messages exist together
    Deletable,      \* bound: which of them somebody deletes
    Env,            \* what the environment may do, see below
    Budget          \* bound: failures and crashes in a behaviour

Contents == { ContentOf[d] : d \in Deliveries }
Header(d) == HeaderIn[ContentOf[d]]
Parts == UNION { PartsOf[c] : c \in Contents }
Mailboxes == { MailboxOf[d] : d \in Deliveries }
AttachmentIds == Deliveries \X Parts

\* Archiving may fail, a worker may die; emails are deleted while no mail is
\* archived, or at any time; a deletion may fail, between the removal of an
\* attachment's file and of its record too.
EnvKinds == { "fail", "crash", "racingDelete", "deleteFail", "recordFail" }

ASSUME ConstantsAssumption ==
    /\ NoContent \notin Contents
    /\ NoRow \notin Deliveries
    /\ Worlds \subseteq SUBSET Deliveries
    /\ Deletable \subseteq Deliveries
    /\ Env \subseteq EnvKinds
    /\ Budget \in Nat
    /\ CacheMax \in Nat \ {0}

\* A header is its message's key; a generated key embeds the hash of the bytes
\* and the message's id, which only one mailbox of a source gives out.
ASSUME KeysAssumption ==
    \A d, e \in Deliveries :
        /\ Header(d) # NoHeader /\ Header(d) = Header(e) => KeyOf[d] = KeyOf[e]
        /\ KeyOf[d] = KeyOf[e] =>
              /\ Header(d) = Header(e)
              /\ Header(d) = NoHeader => ContentOf[d] = ContentOf[e] /\ MailboxOf[d] = MailboxOf[e]

\* No folder and id give the content-addressed path of a message (OwnPath below).
ASSUME PathsAssumption == \A d, e \in Deliveries : PathOf[d] # << PathOf[e], ContentOf[e] >>

VARIABLES
    preserve,   \* the source keeps original files (GoBD mode)
    offered,    \* the messages its mailboxes hold
    pc,         \* where processEmail is for each delivery
    result,     \* what it returned
    seen,       \* the row the gates found to share a file with
    place,      \* the row to insert: where the bytes ended up, and their hash
    copy,       \* the attachment links read off the row seen
    rows,       \* archived_emails
    objects,    \* the stored .eml files
    part,       \* each attachment's step within each delivery
    promise,    \* the delivery whose lookup each attachment waits for
    partId,     \* the attachments row it resolved to
    cache,      \* attachmentIdCache of each mailbox's job: who resolves what
    torn,       \* attachments whose promise was dropped before it was kept (history)
    attRows,    \* attachments
    attFiles,   \* their stored files
    links,      \* email_attachments
    del,        \* where the deletion of each row is
    todo,       \* the attachments it still has to unlink; the first is the one at hand
    faults      \* failures and crashes so far

archiveVars == << pc, result, seen, place, copy >>
partVars == << part, promise, partId, cache, torn >>
attVars == << attRows, attFiles >>
delVars == << del, todo >>
given == << preserve, offered >>
vars == << given, archiveVars, rows, objects, partVars, attVars, links, delVars, faults >>

OwnPath(d) == << PathOf[d], ContentOf[d] >>     \* `<path>-<hash>.eml`
Paths == { PathOf[d] : d \in Deliveries } \cup { OwnPath(d) : d \in Deliveries }
Row == [path : Paths, hash : Contents, hasParts : BOOLEAN]
NoAttachment == << NoRow, NoRow >>

Active == { "gate", "hashSelf", "hashOther", "put", "adopt", "putOwn", "insert",
            "refInsert", "refLinks", "refCopy", "parts" }
PartPc == { "idle", "lookup", "create", "await", "ready", "linked", "failed" }
DelPc == { "idle", "list", "unlink", "count", "file", "record", "emlCount", "emlFile",
           "document", "row", "done", "aborted" }

TypeOK ==
    /\ preserve \in BOOLEAN
    /\ offered \in Worlds
    /\ pc \in [Deliveries -> Active \cup { "idle", "done" }]
    /\ result \in [Deliveries -> { "none", "archived", "skipped", "failed" }]
    /\ seen \in [Deliveries -> Deliveries \cup {NoRow}]
    /\ place \in [Deliveries -> Row \cup {NoRow}]
    /\ copy \in [Deliveries -> SUBSET AttachmentIds]
    /\ rows \in [Deliveries -> Row \cup {NoRow}]
    /\ objects \in [Paths -> Contents \cup {NoContent}]
    /\ part \in [Deliveries -> [Parts -> PartPc]]
    /\ promise \in [Deliveries -> [Parts -> Deliveries \cup {NoRow}]]
    /\ partId \in [Deliveries -> [Parts -> AttachmentIds \cup {NoAttachment}]]
    /\ cache \in [Mailboxes -> [Parts -> Deliveries \cup {NoRow}]]
    /\ torn \subseteq Mailboxes \X Parts
    /\ attRows \subseteq AttachmentIds
    /\ attFiles \subseteq AttachmentIds
    /\ links \subseteq Deliveries \X AttachmentIds
    /\ del \in [Deliveries -> DelPc]
    /\ todo \in [Deliveries -> SUBSET AttachmentIds]
    /\ faults \in 0 .. Budget

Init ==
    /\ preserve \in BOOLEAN
    /\ offered \in Worlds
    /\ pc = [d \in Deliveries |-> "idle"]
    /\ result = [d \in Deliveries |-> "none"]
    /\ seen = [d \in Deliveries |-> NoRow]
    /\ place = [d \in Deliveries |-> NoRow]
    /\ copy = [d \in Deliveries |-> {}]
    /\ rows = [d \in Deliveries |-> NoRow]
    /\ objects = [p \in Paths |-> NoContent]
    /\ part = [d \in Deliveries |-> [h \in Parts |-> "idle"]]
    /\ promise = [d \in Deliveries |-> [h \in Parts |-> NoRow]]
    /\ partId = [d \in Deliveries |-> [h \in Parts |-> NoAttachment]]
    /\ cache = [b \in Mailboxes |-> [h \in Parts |-> NoRow]]
    /\ torn = {}
    /\ attRows = {}
    /\ attFiles = {}
    /\ links = {}
    /\ del = [d \in Deliveries |-> "idle"]
    /\ todo = [d \in Deliveries |-> {}]
    /\ faults = 0

-----------------------------------------------------------------------------
(* processEmail: the gates                                                 *)

Live == { d \in Deliveries : rows[d] # NoRow }

\* (Faulty variants, named *_Fault, are what the mutation runs put in place of
\* the definition that follows them.)

\* Fault: emails without a Message-ID are kept apart by their ids only.
SerializedWith_Fault(d, e) == MailboxOf[d] = MailboxOf[e] /\ KeyOf[d] = KeyOf[e]

\* dedupKeyFor: which deliveries of a mailbox the job keeps apart.
SerializedWith(d, e) ==
    /\ MailboxOf[d] = MailboxOf[e]
    /\ KeyOf[d] = KeyOf[e] \/ (preserve /\ Header(d) = NoHeader /\ Header(e) = NoHeader)

\* Unless deletions race, none runs while mail is archived, and one that failed
\* is repeated first: what it left half done must not be archived against.
DeletionAllowed == "racingDelete" \in Env \/ \A d \in Deliveries : pc[d] \notin Active
ArchivingAllowed == "racingDelete" \in Env \/ \A d \in Deliveries : del[d] \in { "idle", "done" }

Go(d, where) == pc' = [pc EXCEPT ![d] = where]

\* Where the bytes of a new row are, and the hash of what is there.
StoredAt(d, path, hash) ==
    place' = [place EXCEPT ![d] = [path |-> path, hash |-> hash,
                                   hasParts |-> PartsOf[ContentOf[d]] # {}]]

Return(d, what) == Go(d, "done") /\ result' = [result EXCEPT ![d] = what]

\* The job offers the message, for the first time or again after a failure.
\* (Bound: not again after its row was deleted.)
Start(d) ==
    /\ d \in offered
    /\ pc[d] = "idle" \/ (pc[d] = "done" /\ result[d] = "failed")
    /\ del[d] = "idle"
    /\ ArchivingAllowed
    /\ \A e \in Deliveries : SerializedWith(d, e) => pc[e] \notin Active
    /\ Go(d, "gate")
    /\ result' = [result EXCEPT ![d] = "none"]
    /\ seen' = [seen EXCEPT ![d] = NoRow]
    /\ UNCHANGED << given, place, copy, rows, objects, partVars, attVars, links,
                    delVars, faults >>

\* Gates 1 and 2 in one SELECT: this mailbox has the message, or another has.
Gate(d) ==
    /\ pc[d] = "gate"
    /\ LET same == { e \in Live : KeyOf[e] = KeyOf[d] } IN
       \/ /\ \E e \in same : MailboxOf[e] = MailboxOf[d]
          /\ Return(d, "skipped")
          /\ UNCHANGED << seen, place >>
       \/ /\ \A e \in same : MailboxOf[e] # MailboxOf[d]
          /\ \E e \in same :
                /\ seen' = [seen EXCEPT ![d] = e]
                /\ place' = [place EXCEPT ![d] = rows[e]]
          /\ Go(d, "refInsert")
          /\ UNCHANGED result
       \/ /\ same = {}
          /\ Go(d, IF preserve THEN "hashSelf" ELSE "put")
          /\ UNCHANGED << result, seen, place >>
    /\ UNCHANGED << given, copy, rows, objects, partVars, attVars, links, delVars, faults >>

\* Preserve mode: this mailbox has these very bytes under another key.
HashSelf(d) ==
    /\ pc[d] = "hashSelf"
    /\ IF \E e \in Live : MailboxOf[e] = MailboxOf[d] /\ rows[e].hash = ContentOf[d]
       THEN Return(d, "skipped")
       ELSE Go(d, "hashOther") /\ UNCHANGED result
    /\ UNCHANGED << given, seen, place, copy, rows, objects, partVars, attVars, links,
                    delVars, faults >>

\* Preserve mode: another mailbox's row has them; its file is shared.
HashOther(d) ==
    /\ pc[d] = "hashOther"
    /\ LET same == { e \in Live : rows[e].hash = ContentOf[d] } IN
       \/ /\ \E e \in same :
                StoredAt(d, rows[e].path, ContentOf[d])
          /\ Go(d, "insert")
       \/ same = {} /\ Go(d, "put") /\ UNCHANGED place
    /\ UNCHANGED << given, result, seen, copy, rows, objects, partVars, attVars, links,
                    delVars, faults >>

-----------------------------------------------------------------------------
(* processEmail: storeEmailOrAdopt                                         *)

\* The conditional write: it refuses a path that is taken.
Put(d) ==
    /\ pc[d] = "put"
    /\ IF objects[PathOf[d]] = NoContent
       THEN /\ objects' = [objects EXCEPT ![PathOf[d]] = ContentOf[d]]
            /\ StoredAt(d, PathOf[d], ContentOf[d])
            /\ Go(d, "insert")
       ELSE Go(d, "adopt") /\ UNCHANGED << objects, place >>
    /\ UNCHANGED << given, result, seen, copy, rows, partVars, attVars, links, delVars,
                    faults >>

\* Fault: what is at the path is taken for the same message.
SameMessage_Fault(d, stored) == stored \in Contents

\* The Message-ID read from the stored bytes is the incoming one.
SameMessage(d, stored) == Header(d) # NoHeader /\ HeaderIn[stored] = Header(d)

\* The bytes at the path are read: the same message is adopted.
Adopt(d) ==
    /\ pc[d] = "adopt"
    /\ LET stored == objects[PathOf[d]] IN
       IF stored = NoContent        \* deleted meanwhile: the read fails
       THEN Return(d, "failed") /\ UNCHANGED place
       ELSE /\ UNCHANGED result
            /\ \/ /\ SameMessage(d, stored)
                  /\ StoredAt(d, PathOf[d], stored)
                  /\ Go(d, "insert")
               \/ /\ ~ SameMessage(d, stored)
                  /\ Go(d, "putOwn")
                  /\ UNCHANGED place
    /\ UNCHANGED << given, seen, copy, rows, objects, partVars, attVars, links, delVars,
                    faults >>

\* A content-addressed path; what is there already is these very bytes.
PutOwn(d) ==
    /\ pc[d] = "putOwn"
    /\ objects' = [objects EXCEPT ![OwnPath(d)] = ContentOf[d]]
    /\ StoredAt(d, OwnPath(d), ContentOf[d])
    /\ Go(d, "insert")
    /\ UNCHANGED << given, result, seen, copy, rows, partVars, attVars, links, delVars,
                    faults >>

InsertRow(d) ==
    /\ rows' = [rows EXCEPT ![d] = place[d]]
    /\ place' = [place EXCEPT ![d] = NoRow]

Insert(d) ==
    /\ pc[d] = "insert"
    /\ InsertRow(d)
    /\ IF preserve THEN Return(d, "archived") ELSE Go(d, "parts") /\ UNCHANGED result
    /\ UNCHANGED << given, seen, copy, objects, partVars, attVars, links, delVars,
                    faults >>

-----------------------------------------------------------------------------
(* processEmail: the reference row of another mailbox                      *)

RefInsert(d) ==
    /\ pc[d] = "refInsert"
    /\ InsertRow(d)
    /\ IF place[d].hasParts THEN Go(d, "refLinks") /\ UNCHANGED result
                            ELSE Return(d, "archived")
    /\ UNCHANGED << given, seen, copy, objects, partVars, attVars, links, delVars,
                    faults >>

\* The links the shared row has by now are read ...
RefLinks(d) ==
    /\ pc[d] = "refLinks"
    /\ copy' = [copy EXCEPT ![d] = { l[2] : l \in { k \in links : k[1] = seen[d] } }]
    /\ Go(d, "refCopy")
    /\ UNCHANGED << given, result, seen, place, rows, objects, partVars, attVars, links,
                    delVars, faults >>

\* ... and inserted for the new row, if their foreign keys hold.
RefCopy(d) ==
    /\ pc[d] = "refCopy"
    /\ IF copy[d] \subseteq attRows /\ (rows[d] # NoRow \/ copy[d] = {})
       THEN links' = links \cup ({d} \X copy[d]) /\ Return(d, "archived")
       ELSE UNCHANGED links /\ Return(d, "failed")
    /\ copy' = [copy EXCEPT ![d] = {}]
    /\ UNCHANGED << given, seen, place, rows, objects, partVars, attVars, delVars,
                    faults >>

-----------------------------------------------------------------------------
(* processEmail: the attachments of a new row                              *)

SetPart(d, h, step) == part' = [part EXCEPT ![d][h] = step]
Resolved(d, h, id) == partId' = [partId EXCEPT ![d][h] = id]

\* Fault: the cache is filled once the id is known, not before it is awaited.
PartStart_Fault(d, h) ==
    /\ pc[d] = "parts" /\ part[d][h] = "idle" /\ h \in PartsOf[ContentOf[d]]
    /\ SetPart(d, h, "lookup") /\ promise' = [promise EXCEPT ![d][h] = d]
    /\ UNCHANGED << given, archiveVars, rows, objects, partId, cache, torn, attVars, links,
                    delVars, faults >>

Cached(b) == { g \in Parts : cache[b][g] # NoRow }

\* What a full cache drops for a new entry, one at a time; which entry is the
\* oldest is left open.
Evicted(b) == IF Cardinality(Cached(b)) < CacheMax THEN {{}} ELSE { {g} : g \in Cached(b) }

\* getOrCreateAttachmentId: the first email of the job to ask starts the
\* lookup, the others share its promise, as long as the cache holds it.
PartStart(d, h) ==
    /\ pc[d] = "parts" /\ part[d][h] = "idle" /\ h \in PartsOf[ContentOf[d]]
    /\ LET b == MailboxOf[d] IN
       \/ /\ h \in Cached(b)
          /\ SetPart(d, h, "await")
          /\ promise' = [promise EXCEPT ![d][h] = cache[b][h]]
          /\ UNCHANGED << cache, torn >>
       \/ /\ h \notin Cached(b)
          /\ SetPart(d, h, "lookup")
          /\ promise' = [promise EXCEPT ![d][h] = d]
          /\ \E gone \in Evicted(b) :
                /\ cache' = [cache EXCEPT ![b] =
                      [g \in Parts |-> IF g = h THEN d ELSE IF g \in gone THEN NoRow ELSE cache[b][g]]]
                /\ torn' = torn \cup
                      { << b, g >> : g \in { g \in gone : part[cache[b][g]][g] \in { "lookup", "create" } } }
    /\ UNCHANGED << given, archiveVars, rows, objects, partId, attVars, links, delVars,
                    faults >>

\* The SELECT by hash.
PartLookup(d, h) ==
    /\ part[d][h] = "lookup"
    /\ \/ \E id \in attRows : id[2] = h /\ Resolved(d, h, id) /\ SetPart(d, h, "ready")
       \/ /\ \A id \in attRows : id[2] # h
          /\ SetPart(d, h, "create") /\ UNCHANGED partId
    /\ UNCHANGED << given, archiveVars, rows, objects, promise, cache, torn, attVars, links, delVars,
                    faults >>

\* The file is stored under a name of its own, and its row inserted.
PartCreate(d, h) ==
    /\ part[d][h] = "create"
    /\ attRows' = attRows \cup { << d, h >> }
    /\ attFiles' = attFiles \cup { << d, h >> }
    /\ Resolved(d, h, << d, h >>) /\ SetPart(d, h, "ready")
    /\ UNCHANGED << given, archiveVars, rows, objects, promise, cache, torn, links, delVars, faults >>

\* The shared promise resolves, or rejects for every email that waits on it.
PartAwait(d, h) ==
    /\ part[d][h] = "await"
    /\ LET e == promise[d][h] IN
       \/ /\ partId[e][h] # NoAttachment
          /\ Resolved(d, h, partId[e][h]) /\ SetPart(d, h, "ready")
       \/ /\ partId[e][h] = NoAttachment /\ part[e][h] = "failed"
          /\ SetPart(d, h, "failed") /\ UNCHANGED partId
    /\ UNCHANGED << given, archiveVars, rows, objects, promise, cache, torn, attVars, links,
                    delVars, faults >>

\* Each attachment is linked as soon as its own id is known.
PartLink(d, h) ==
    /\ part[d][h] = "ready"
    /\ IF partId[d][h] \in attRows /\ rows[d] # NoRow
       THEN links' = links \cup { << d, partId[d][h] >> } /\ SetPart(d, h, "linked")
       ELSE UNCHANGED links /\ SetPart(d, h, "failed")
    /\ UNCHANGED << given, archiveVars, rows, objects, promise, partId, cache, torn, attVars,
                    delVars, faults >>

\* Fault: a rejected attachment is overlooked.
PartsDone_Fault(d) ==
    /\ pc[d] = "parts"
    /\ \A h \in PartsOf[ContentOf[d]] : part[d][h] \in { "linked", "failed" }
    /\ Return(d, "archived")
    /\ UNCHANGED << given, seen, place, copy, rows, objects, partVars, attVars, links,
                    delVars, faults >>

\* Every attachment has settled; a rejected one makes the email a failure.
PartsDone(d) ==
    /\ pc[d] = "parts"
    /\ \A h \in PartsOf[ContentOf[d]] : part[d][h] \in { "linked", "failed" }
    /\ Return(d, IF \E h \in PartsOf[ContentOf[d]] : part[d][h] = "failed"
                 THEN "failed" ELSE "archived")
    /\ UNCHANGED << given, seen, place, copy, rows, objects, partVars, attVars, links,
                    delVars, faults >>

-----------------------------------------------------------------------------
(* Failures of processEmail                                                *)

Spend(kind) == kind \in Env /\ faults < Budget /\ faults' = faults + 1

\* A statement or storage call of one attachment fails; a rejected lookup drops
\* what the cache holds for the attachment, its own promise or, after an
\* eviction, another's.
PartFail(d, h) ==
    /\ part[d][h] \in { "lookup", "create", "ready" }
    /\ Spend("fail")
    /\ SetPart(d, h, "failed")
    /\ cache' = IF part[d][h] = "ready" THEN cache
                ELSE [cache EXCEPT ![MailboxOf[d]][h] = NoRow]
    /\ UNCHANGED << given, archiveVars, rows, objects, promise, partId, torn, attVars, links,
                    delVars >>

\* Any other one fails: an error is returned at once.
Fail(d) ==
    /\ pc[d] \in Active \ { "parts" }
    /\ Spend("fail")
    /\ Return(d, "failed")
    /\ place' = [place EXCEPT ![d] = NoRow] /\ copy' = [copy EXCEPT ![d] = {}]
    /\ UNCHANGED << given, seen, rows, objects, partVars, attVars, links, delVars >>

\* The worker dies: what the job of a mailbox was doing is lost, what it wrote
\* is not.
Crash(b) ==
    /\ Spend("crash")
    /\ LET hit == { d \in Deliveries : MailboxOf[d] = b /\ pc[d] \in Active } IN
       /\ hit # {}
       /\ pc' = [d \in Deliveries |-> IF d \in hit THEN "idle" ELSE pc[d]]
       /\ part' = [d \in Deliveries |->
                     IF d \in hit THEN [h \in Parts |-> "idle"] ELSE part[d]]
       /\ promise' = [d \in Deliveries |->
                        IF d \in hit THEN [h \in Parts |-> NoRow] ELSE promise[d]]
       /\ partId' = [d \in Deliveries |->
                       IF d \in hit THEN [h \in Parts |-> NoAttachment] ELSE partId[d]]
       /\ place' = [d \in Deliveries |-> IF d \in hit THEN NoRow ELSE place[d]]
       /\ copy' = [d \in Deliveries |-> IF d \in hit THEN {} ELSE copy[d]]
    /\ cache' = [cache EXCEPT ![b] = [h \in Parts |-> NoRow]]
    /\ UNCHANGED << given, result, seen, rows, objects, torn, attVars, links, delVars >>

-----------------------------------------------------------------------------
(* deleteArchivedEmail                                                     *)

DelGo(d, where) == del' = [del EXCEPT ![d] = where]
Current(d) == CHOOSE id \in todo[d] : TRUE

DelStart(d) ==
    /\ d \in Deletable
    /\ DeletionAllowed
    /\ del[d] \in { "idle", "aborted" }
    /\ rows[d] # NoRow
    /\ DelGo(d, IF rows[d].hasParts THEN "list" ELSE "emlCount")
    /\ UNCHANGED << given, archiveVars, rows, objects, partVars, attVars, links, todo,
                    faults >>

DelList(d) ==
    /\ del[d] = "list"
    /\ todo' = [todo EXCEPT ![d] = { l[2] : l \in { k \in links : k[1] = d } }]
    /\ DelGo(d, IF todo'[d] = {} THEN "emlCount" ELSE "unlink")
    /\ UNCHANGED << given, archiveVars, rows, objects, partVars, attVars, links, faults >>

DelUnlink(d) ==
    /\ del[d] = "unlink"
    /\ links' = links \ { << d, Current(d) >> }
    /\ DelGo(d, "count")
    /\ UNCHANGED << given, archiveVars, rows, objects, partVars, attVars, todo, faults >>

\* On to the next attachment, or past the last.
NextPart(d) ==
    /\ todo' = [todo EXCEPT ![d] = @ \ { Current(d) }]
    /\ DelGo(d, IF todo'[d] = {} THEN "emlCount" ELSE "unlink")

\* Fault: the attachment goes with the first of its emails.
DelCount_Fault(d) ==
    /\ del[d] = "count"
    /\ DelGo(d, "file") /\ UNCHANGED todo
    /\ UNCHANGED << given, archiveVars, rows, objects, partVars, attVars, links, faults >>

\* Is another email linked to the attachment?
DelCount(d) ==
    /\ del[d] = "count"
    /\ IF \E l \in links : l[2] = Current(d)
       THEN NextPart(d)
       ELSE DelGo(d, "file") /\ UNCHANGED todo
    /\ UNCHANGED << given, archiveVars, rows, objects, partVars, attVars, links, faults >>

DelFile(d) ==
    /\ del[d] = "file"
    /\ attFiles' = attFiles \ { Current(d) }
    /\ DelGo(d, "record")
    /\ UNCHANGED << given, archiveVars, rows, objects, partVars, attRows, links, todo,
                    faults >>

\* The foreign key of email_attachments refuses a record that is linked.
DelRecord(d) ==
    /\ del[d] = "record"
    /\ IF \E l \in links : l[2] = Current(d)
       THEN DelGo(d, "aborted") /\ UNCHANGED << attRows, todo >>
       ELSE attRows' = attRows \ { Current(d) } /\ NextPart(d)
    /\ UNCHANGED << given, archiveVars, rows, objects, partVars, attFiles, links, faults >>

\* Does another row share the file?
DelEmlCount(d) ==
    /\ del[d] = "emlCount"
    /\ DelGo(d, IF \E e \in Live \ {d} : rows[e].path = rows[d].path
                THEN "document" ELSE "emlFile")
    /\ UNCHANGED << given, archiveVars, rows, objects, partVars, attVars, links, todo,
                    faults >>

DelEmlFile(d) ==
    /\ del[d] = "emlFile"
    /\ objects' = [objects EXCEPT ![rows[d].path] = NoContent]
    /\ DelGo(d, "document")
    /\ UNCHANGED << given, archiveVars, rows, partVars, attVars, links, todo, faults >>

\* The search document is deleted, and the task waited for.
DelDocument(d) ==
    /\ del[d] = "document"
    /\ DelGo(d, "row")
    /\ UNCHANGED << given, archiveVars, rows, objects, partVars, attVars, links, todo,
                    faults >>

\* The row goes, and its links by cascade.
DelRow(d) ==
    /\ del[d] = "row"
    /\ rows' = [rows EXCEPT ![d] = NoRow]
    /\ links' = { l \in links : l[1] # d }
    /\ DelGo(d, "done")
    /\ UNCHANGED << given, archiveVars, objects, partVars, attVars, todo, faults >>

\* A statement, a storage call or the search task fails: the error is thrown.
DelFail(d) ==
    /\ del[d] \notin { "idle", "done", "aborted" }
    /\ Spend(IF del[d] = "record" THEN "recordFail" ELSE "deleteFail")
    /\ DelGo(d, "aborted")
    /\ UNCHANGED << given, archiveVars, rows, objects, partVars, attVars, links, todo >>

-----------------------------------------------------------------------------
PartNext(d, h) ==
    \/ PartStart(d, h) \/ PartLookup(d, h) \/ PartCreate(d, h) \/ PartAwait(d, h)
    \/ PartLink(d, h) \/ PartFail(d, h)

ArchiveNext(d) ==
    \/ Start(d) \/ Gate(d) \/ HashSelf(d) \/ HashOther(d)
    \/ Put(d) \/ Adopt(d) \/ PutOwn(d) \/ Insert(d)
    \/ RefInsert(d) \/ RefLinks(d) \/ RefCopy(d)
    \/ PartsDone(d) \/ Fail(d)
    \/ \E h \in Parts : PartNext(d, h)

DelNext(d) ==
    \/ DelStart(d) \/ DelList(d) \/ DelUnlink(d) \/ DelCount(d) \/ DelFile(d) \/ DelRecord(d)
    \/ DelEmlCount(d) \/ DelEmlFile(d) \/ DelDocument(d) \/ DelRow(d) \/ DelFail(d)

Next ==
    \/ \E d \in Deliveries : ArchiveNext(d) \/ DelNext(d)
    \/ \E b \in Mailboxes : Crash(b)

Spec == Init /\ [][Next]_vars

-----------------------------------------------------------------------------
(* Properties                                                              *)

Untouched(d) == rows[d] # NoRow /\ del[d] = "idle"

\* Every email nobody has tried to delete has its file, with the bytes its row
\* has the hash of: two deliveries aiming at one path, a file left by a crash and
\* the deletion of a row that shares it notwithstanding (storeEmailOrAdopt,
\* deleteArchivedEmail; IntegrityService checks it row by row).
EmailsBacked ==
    \A d \in Deliveries : Untouched(d) => objects[rows[d].path] = rows[d].hash

\* The file is that message's: "Adopting blindly there would store one message
\* under a row describing another, and the integrity report would call it
\* verified" (storeEmailOrAdopt).
FileIsTheMessage ==
    \A d \in Live : /\ HeaderIn[rows[d].hash] = Header(d)
                    /\ Header(d) = NoHeader => rows[d].hash = ContentOf[d]

\* A mailbox has one row per message, and in preserve mode one per content, keyless
\* messages included (the serialization behind dedupKeyFor).
OneRowPerMessage ==
    \A d, e \in Live :
        /\ MailboxOf[d] = MailboxOf[e]
        /\ KeyOf[d] = KeyOf[e] \/ (preserve /\ rows[d].hash = rows[e].hash /\ Header(d) = NoHeader)
        => d = e

HasAllParts(d) == \A h \in PartsOf[ContentOf[d]] : \E id \in attRows : id[2] = h /\ << d, id >> \in links

\* A message archived anew and reported as a success lists all its attachments.
ArchivedWithParts ==
    \A d \in Deliveries :
        Untouched(d) /\ ~ preserve /\ result[d] = "archived" /\ seen[d] = NoRow => HasAllParts(d)

\* Whatever is linked exists, its record and its file.
PartsBacked == \A l \in links : del[l[1]] = "idle" => l[2] \in attRows \cap attFiles

\* A deletion takes nothing another email still needs, and no crash or failed
\* attempt leaves an email without its file or an attachment
\* (deleteArchivedEmail's reference counts, storeEmailOrAdopt).
Backed == EmailsBacked /\ PartsBacked

\* "two emails archived at the same time that share an attachment also serialize
\* onto the same insert" (getOrCreateAttachmentId): one job makes one record of a
\* content, whatever fails, dies and is dropped from the full cache, unless what
\* is dropped is a promise not yet kept.  (Its comment has an eviction cost "at
\* worst one repeated lookup"; then it is a second record.)
OnePartPerJob ==
    \A i, j \in attRows :
        i[2] = j[2] /\ MailboxOf[i[1]] = MailboxOf[j[1]]
            => i = j \/ << MailboxOf[i[1]], i[2] >> \in torn

\* "Copy attachment links from the existing email to this reference row so that
\* per-mailbox attachment queries return correct results" (processEmail).
ReferenceWithParts ==
    \A d \in Deliveries :
        Untouched(d) /\ ~ preserve /\ result[d] = "archived" /\ seen[d] # NoRow => HasAllParts(d)

\* A failed deletion "leaves the email intact and the operation repeatable"
\* (deleteArchivedEmail, of a failing search task).
AbortedIntact ==
    \A d \in Deliveries :
        del[d] = "aborted" /\ rows[d] # NoRow => objects[rows[d].path] = rows[d].hash
=============================================================================
