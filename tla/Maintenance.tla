---------------------------- MODULE Maintenance ----------------------------
(***************************************************************************)
(* The two repairs an operator can start on the indexing worker, beside    *)
(* each other and beside everything that archives, indexes, holds and      *)
(* deletes: cleanup-orphans walks the search index by offset and removes   *)
(* documents without a row (IndexMaintenanceService), cleanup-duplicates   *)
(* walks the archive by id and removes surplus copies                      *)
(* (ArchiveMaintenanceService).                                            *)
(***************************************************************************)
EXTENDS Naturals, FiniteSets

CONSTANTS
    Ids,            \* row ids, numbers that say nothing of the order of archiving
    Versions,       \* what a row may hold: contents that claim some Message-ID
    MessageOf,      \* [Versions -> messages]: source, mailbox and Message-ID
    SourceOf,       \* [Versions -> sources]
    ScanPage,       \* SCAN_PAGE_SIZE: documents on a page of the index
    DeleteBatch,    \* DELETE_BATCH_SIZE
    DuplicatePage,  \* PAGE_SIZE: surplus rows on a page
    Env,            \* what may happen while the repairs run
    Budget          \* bound: how often it happens

Sources == { SourceOf[v] : v \in Versions }

ASSUME MaintenanceAssumption ==
    /\ IsFiniteSet(Ids) /\ Ids \subseteq Nat \ {0}
    /\ ScanPage \in Nat \ {0} /\ DeleteBatch \in Nat \ {0} /\ DuplicatePage \in Nat \ {0}
    /\ Budget \in Nat

VARIABLES
    archive,    \* rows, sources and holds in the database
    engine,     \* the documents of the index
    sweep,      \* cleanup-orphans
    dups,       \* cleanup-duplicates
    faults      \* how often Env struck

vars == << archive, engine, sweep, dups, faults >>

Archive ==
    [ age : [Ids -> Nat],           \* the order of archiving; 0: never archived
      version : [Ids -> Versions],
      rows : SUBSET Ids,
      sources : SUBSET Sources,
      held : SUBSET Ids ]           \* rows that a legal hold or a label protects

Engine ==
    [ docs : SUBSET Ids,
      place : [Ids -> Nat],         \* orders the documents
      written : SUBSET Ids,         \* documents ever written
      torn : SUBSET Ids ]           \* whose deletion took the document and has not taken the row

Sweep ==
    [ pc : { "idle", "overview", "confirm", "blocks", "page", "check", "drain", "last" },
      blocks : SUBSET Sources,      \* deletedSources, then confirmedDeleted
      offset : Nat,
      page : SUBSET Ids,            \* ids
      reads : Nat,                  \* pages read since the buffer was empty
      pending : SUBSET (Ids \X Nat),    \* ids to delete, by the page they were read on
      removed : Nat,                \* removedThisPage
      retried : BOOLEAN,            \* a stalled run has been started again
      orphans : SUBSET Ids,         \* when the walk began; forgotten when others remove a document
      refused : SUBSET Ids,         \* ids of a deletion task that failed
      done : BOOLEAN ]              \* a run ended by itself

Dups ==
    [ pc : { "idle", "page", "rows" },
      cursor : Nat,
      page : SUBSET Ids,            \* rows of the page still to be looked at
      removable : SUBSET Ids,       \* those not protected and equal to the kept row
      unlisted : BOOLEAN,           \* the index has answered for the row at hand
      retried : BOOLEAN,
      start : SUBSET Ids,           \* the rows when the run began; forgotten with a hold or deletion
      fresh : BOOLEAN,              \* no hold and no deletion by others since the page
      done : BOOLEAN ]

TypeOK ==
    /\ archive \in Archive /\ engine \in Engine /\ sweep \in Sweep /\ dups \in Dups
    /\ faults \in 0 .. Budget

IdleSweep ==
    [ pc |-> "idle", blocks |-> {}, offset |-> 0, page |-> {}, reads |-> 0, pending |-> {},
      removed |-> 0, retried |-> FALSE, orphans |-> {}, refused |-> {}, done |-> FALSE ]

IdleDups ==
    [ pc |-> "idle", cursor |-> 0, page |-> {}, removable |-> {}, retried |-> FALSE,
      unlisted |-> FALSE, start |-> {}, fresh |-> TRUE, done |-> FALSE ]

\* An archive with a past: rows of any age, all of them indexed in the order of
\* archiving, and documents of deleted ones among theirs.
Init ==
    /\ \E known \in SUBSET Ids, version \in [Ids -> Versions], age \in [Ids -> 0 .. Cardinality(Ids)] :
       \E rows \in SUBSET known :
          /\ \A r \in Ids : IF r \in known THEN age[r] \in 1 .. Cardinality(known)
                           ELSE age[r] = 0 /\ version[r] = CHOOSE v \in Versions : TRUE
          /\ \A r, q \in known : age[r] = age[q] => r = q
          /\ archive = [ age |-> age, version |-> version, rows |-> rows, sources |-> Sources,
                         held |-> {} ]
          /\ engine = [ docs |-> known, place |-> age, written |-> known, torn |-> {} ]
    /\ sweep = IdleSweep /\ dups = IdleDups
    /\ faults = 0

Strikes(kind) == kind \in Env /\ faults < Budget /\ faults' = faults + 1

DocsOf(s) == { d \in engine.docs : SourceOf[archive.version[d]] = s }
Known(r) == archive.age[r] > 0

-----------------------------------------------------------------------------
(* What goes on beside the repairs                                         *)

\* A row is inserted, under an id of its own.
Insert(r, v) ==
    /\ ~ Known(r) /\ SourceOf[v] \in archive.sources
    /\ archive' = [ archive EXCEPT !.age[r] = 1 + Cardinality({ q \in Ids : Known(q) }),
                                   !.version[r] = v, !.rows = @ \cup {r} ]
    /\ Strikes("insert")
    /\ UNCHANGED << engine, sweep, dups >>

\* The engine puts a new document wherever there is room.
Written(r) ==
    \E p \in Ids :
        /\ \A d \in engine.docs : engine.place[d] # p
        /\ engine' = [ engine EXCEPT !.docs = @ \cup {r}, !.place[r] = p, !.written = @ \cup {r},
                                     !.torn = @ \ {r} ]

\* An index job writes its document, or writes it too late (SearchIndex).  The row
\* whose document was taken still counts as indexed: only a rebuild writes it.
Index(r) ==
    /\ Known(r) /\ r \notin engine.docs
    /\ IF r \notin archive.rows THEN Strikes("lateWrite")
       ELSE IF r \in engine.torn THEN Strikes("rebuild") ELSE UNCHANGED faults
    /\ Written(r)
    /\ sweep' = [ sweep EXCEPT !.orphans = @ \ {r} ]
    /\ UNCHANGED << archive, dups >>

\* Others remove documents or rows, or place a hold, while the repairs run.
Unsettled ==
    /\ sweep' = [ sweep EXCEPT !.orphans = {} ]
    /\ dups' = [ dups EXCEPT !.start = {}, !.fresh = FALSE ]

\* deleteArchivedEmail by a user.  The document's deletion is waited for, but a
\* task that failed goes unnoticed; the row's deletion behind it may throw.
UserDeletes(r) ==
    /\ r \in archive.rows \ archive.held /\ Strikes("delete")
    /\ \E row, doc \in SUBSET {r} :
          /\ row = {} => doc # {}
          /\ archive' = [ archive EXCEPT !.rows = @ \ row ]
          /\ engine' = [ engine EXCEPT !.docs = @ \ doc, !.torn = (@ \cup doc) \ row ]
    /\ Unsettled

\* A source goes with its rows; its documents stay when the engine is away.
SourceDeleted(s) ==
    /\ s \in archive.sources /\ Strikes("source")
    /\ LET gone == { r \in archive.rows : SourceOf[archive.version[r]] = s } IN
       archive' = [ archive EXCEPT !.sources = @ \ {s}, !.rows = @ \ gone, !.held = @ \ gone ]
    /\ \E stay \in BOOLEAN :
          engine' = IF stay THEN engine ELSE [ engine EXCEPT !.docs = @ \ DocsOf(s) ]
    /\ Unsettled

\* A hold is placed on a message, or released.
Hold(r) ==
    /\ r \in archive.rows /\ Strikes("hold")
    /\ archive' = [ archive EXCEPT !.held = IF r \in @ THEN @ \ {r} ELSE @ \cup {r} ]
    /\ UNCHANGED engine
    /\ Unsettled

-----------------------------------------------------------------------------
(* cleanup-orphans                                                         *)

\* One job id: a failed run's record is cleared, a live run absorbs the click.
\* Bounds: each repair ends by itself once, and the second one counts as an event.
TriggerOrphans ==
    /\ sweep.pc = "idle" /\ ~ sweep.done
    /\ IF dups = IdleDups THEN UNCHANGED faults ELSE Strikes("both")
    /\ sweep' = [ IdleSweep EXCEPT !.pc = "overview" ]
    /\ UNCHANGED << archive, engine, dups >>

\* Sources of the index that have no name.  When the names cannot be looked up,
\* the overview has none for any of them.
Overview ==
    /\ sweep.pc = "overview"
    /\ LET indexed == { s \in Sources : DocsOf(s) # {} } IN
       \/ sweep' = [ sweep EXCEPT !.pc = "confirm", !.blocks = indexed \ archive.sources ]
          /\ UNCHANGED faults
       \/ Strikes("namesFail")
          /\ sweep' = [ sweep EXCEPT !.pc = "confirm", !.blocks = indexed ]
    /\ UNCHANGED << archive, engine, dups >>

\* Fault: the overview's word is taken.
Confirmed_Fault == sweep.blocks

\* Asked again of the database; here a failure fails the job.
Confirmed == sweep.blocks \ archive.sources

Confirm ==
    /\ sweep.pc = "confirm"
    /\ sweep' = [ sweep EXCEPT !.pc = "blocks", !.blocks = Confirmed ]
    /\ UNCHANGED << archive, engine, dups, faults >>

\* deleteDocumentsByFilter, waited for; waitForTask returns a failed task too.
RemoveBlock(s) ==
    /\ sweep.pc = "blocks" /\ s \in sweep.blocks
    /\ \/ engine' = [ engine EXCEPT !.docs = @ \ DocsOf(s) ] /\ UNCHANGED faults
       \/ Strikes("taskFail") /\ UNCHANGED engine
    /\ sweep' = [ sweep EXCEPT !.blocks = @ \ {s} ]
    /\ UNCHANGED << archive, dups >>

BlocksDone ==
    /\ sweep.pc = "blocks" /\ sweep.blocks = {}
    /\ sweep' = [ sweep EXCEPT !.pc = "page", !.orphans = engine.docs \ archive.rows ]
    /\ UNCHANGED << archive, engine, dups, faults >>

Position(d) == Cardinality({ e \in engine.docs : engine.place[e] < engine.place[d] })

ReadPage ==
    /\ sweep.pc = "page"
    /\ LET ids == { d \in engine.docs : sweep.offset <= Position(d)
                                        /\ Position(d) < sweep.offset + ScanPage } IN
       sweep' = [ sweep EXCEPT !.page = ids, !.reads = IF sweep.pending = {} THEN 1 ELSE @ + 1, !.removed = 0,
                               !.pc = IF ids = {} THEN "last" ELSE "check" ]
    /\ UNCHANGED << archive, engine, dups, faults >>

\* findExistingIds
CheckRows ==
    /\ sweep.pc = "check"
    /\ sweep' = [ sweep EXCEPT !.pc = "drain",
                    !.pending = @ \cup ((sweep.page \ archive.rows) \X {sweep.reads}) ]
    /\ UNCHANGED << archive, engine, dups, faults >>

\* A batch is deleted and its task waited for: a task that failed counts too, as
\* does a document that was read on two pages.
Delete(batch) ==
    LET ids == { b[1] : b \in batch } IN
    /\ \E taken \in { ids, {} } :
          /\ IF taken = ids THEN UNCHANGED faults ELSE Strikes("taskFail")
          /\ engine' = [ engine EXCEPT !.docs = @ \ taken ]
          /\ sweep' = [ sweep EXCEPT !.pending = @ \ batch, !.removed = @ + Cardinality(batch),
                                     !.refused = @ \cup (ids \ taken) ]
    /\ UNCHANGED << archive, dups >>

Drain ==
    /\ sweep.pc = "drain"
    /\ \E batch \in SUBSET sweep.pending : Cardinality(batch) = DeleteBatch /\ Delete(batch)

\* Fault: the page's own deletions are forgotten.
NextOffset_Fault == sweep.offset + Cardinality(sweep.page)

NextOffset == sweep.offset + Cardinality(sweep.page) - sweep.removed

Advance ==
    /\ sweep.pc = "drain" /\ Cardinality(sweep.pending) < DeleteBatch
    /\ sweep' = [ sweep EXCEPT !.offset = NextOffset, !.page = {},
                    !.pc = IF Cardinality(sweep.page) < ScanPage THEN "last" ELSE "page" ]
    /\ UNCHANGED << archive, engine, dups, faults >>

DrainAll ==
    /\ sweep.pc = "last" /\ sweep.pending # {}
    /\ \E batch \in SUBSET sweep.pending :
          /\ Cardinality(batch) = DeleteBatch \/ batch = sweep.pending
          /\ Cardinality(batch) <= DeleteBatch
          /\ Delete(batch)

SweepDone ==
    /\ sweep.pc = "last" /\ sweep.pending = {}
    /\ sweep' = [ IdleSweep EXCEPT !.orphans = sweep.orphans, !.refused = sweep.refused,
                                    !.done = TRUE ]
    /\ UNCHANGED << archive, engine, dups, faults >>

\* The database or the engine fails: one attempt.
SweepFails ==
    /\ sweep.pc # "idle" /\ Strikes("fail")
    /\ sweep' = IdleSweep
    /\ UNCHANGED << archive, engine, dups >>

-----------------------------------------------------------------------------
(* cleanup-duplicates                                                      *)

Message(r) == MessageOf[archive.version[r]]
Copies(r) == { q \in archive.rows : Message(q) = Message(r) }

\* order by protected desc, archived_at, id: no two rows have the same age here.
Before(q, r) ==
    \/ q \in archive.held /\ r \notin archive.held
    \/ (q \in archive.held <=> r \in archive.held) /\ archive.age[q] < archive.age[r]

Surplus == { r \in archive.rows : \E q \in Copies(r) : Before(q, r) }

\* The first row of the group decides whose content is kept; one protected copy
\* protects them all.
KeptFirst(r) == CHOOSE q \in Copies(r) : \A p \in Copies(r) \ {q} : Before(q, p)
Protected(r) == Copies(r) \cap archive.held # {}

\* Fault: only the protected row itself is spared.
Removable_Fault(r) ==
    r \notin archive.held /\ archive.version[r] = archive.version[KeptFirst(r)]

Removable(r) == ~ Protected(r) /\ archive.version[r] = archive.version[KeptFirst(r)]

TriggerDuplicates ==
    /\ dups.pc = "idle" /\ ~ dups.done
    /\ IF sweep = IdleSweep THEN UNCHANGED faults ELSE Strikes("both")
    /\ dups' = [ IdleDups EXCEPT !.pc = "page", !.start = archive.rows ]
    /\ UNCHANGED << archive, engine, sweep >>

\* Fault: the page resumes behind as many surplus rows as the walk has passed.
Ahead_Fault ==
    { r \in Surplus : Cardinality({ q \in Ids : q <= dups.cursor })
                        <= Cardinality({ q \in Surplus : q < r }) }

\* The keyset.
Ahead == { r \in Surplus : r > dups.cursor }

DuplicatesPage ==
    /\ dups.pc = "page" /\ Ahead # {}
    /\ LET page == { r \in Ahead : Cardinality({ q \in Ahead : q < r }) < DuplicatePage } IN
       dups' = [ dups EXCEPT !.pc = "rows", !.page = page, !.fresh = TRUE,
                   !.removable = { r \in page : Removable(r) },
                   !.cursor = CHOOSE r \in page : \A q \in page : q <= r ]
    /\ UNCHANGED << archive, engine, sweep, faults >>

AtHand(r) == dups.pc = "rows" /\ r \in dups.page /\ \A q \in dups.page : r <= q

\* The row at hand leaves the page.
Leaves(r) ==
    /\ AtHand(r)
    /\ dups' = [ dups EXCEPT !.page = @ \ {r}, !.unlisted = FALSE,
                             !.pc = IF dups.page = {r} THEN "page" ELSE @ ]

SkipCopy(r) ==
    /\ r \notin dups.removable
    /\ Leaves(r)
    /\ UNCHANGED << archive, engine, sweep, faults >>

\* deleteArchivedEmail, whose legal hold check is not registered in a worker:
\* first the document, confirmed by a task that may have failed ...
UnlistCopy(r) ==
    /\ AtHand(r) /\ r \in dups.removable \cap archive.rows /\ ~ dups.unlisted
    /\ \/ UNCHANGED faults
          /\ engine' = [ engine EXCEPT !.docs = @ \ {r}, !.torn = @ \cup {r} ]
       \/ Strikes("taskFail") /\ UNCHANGED engine
    /\ dups' = [ dups EXCEPT !.unlisted = TRUE ]
    /\ sweep' = [ sweep EXCEPT !.orphans = {} ]
    /\ UNCHANGED archive

\* ... then the row.
RemoveCopy(r) ==
    /\ r \in dups.removable /\ dups.unlisted
    /\ Leaves(r)
    /\ archive' = [ archive EXCEPT !.rows = @ \ {r}, !.held = @ \ {r} ]
    /\ engine' = [ engine EXCEPT !.torn = @ \ {r} ]
    /\ UNCHANGED << sweep, faults >>

\* It throws: the row is gone already, or storage, the engine or the deletion of
\* the row fails.
CopyFails(r) ==
    /\ AtHand(r) /\ r \in dups.removable
    /\ IF r \in archive.rows \/ dups.unlisted THEN Strikes("fail") ELSE UNCHANGED faults
    /\ dups' = [ dups EXCEPT !.page = @ \ {r}, !.start = {}, !.unlisted = FALSE,
                             !.pc = IF dups.page = {r} THEN "page" ELSE @ ]
    /\ UNCHANGED << archive, engine, sweep >>

DuplicatesDone ==
    /\ dups.pc = "page" /\ Ahead = {}
    /\ dups' = [ IdleDups EXCEPT !.start = dups.start, !.done = TRUE ]
    /\ UNCHANGED << archive, engine, sweep, faults >>

\* The indexing worker dies: a stalled job is run again, once, although it has a
\* single attempt.
Crash ==
    /\ Strikes("crash")
    /\ sweep.pc # "idle" \/ dups.pc # "idle"
    /\ sweep' = IF sweep.pc = "idle" \/ sweep.retried THEN IdleSweep
                ELSE [ IdleSweep EXCEPT !.pc = "overview", !.retried = TRUE ]
    /\ dups' = IF dups.pc = "idle" \/ dups.retried THEN IdleDups
               ELSE [ IdleDups EXCEPT !.pc = "page", !.retried = TRUE, !.start = archive.rows ]
    /\ UNCHANGED << archive, engine >>

-----------------------------------------------------------------------------
\* Bound: while neither repair runs nothing else is looked at, and holds only while
\* copies are removed.
Beside ==
    /\ sweep.pc # "idle" \/ dups.pc # "idle"
    /\ \/ \E r \in Ids : \/ \E v \in Versions : Insert(r, v)
                         \/ Index(r) \/ UserDeletes(r)
                         \/ dups.pc # "idle" /\ Hold(r)
       \/ \E s \in Sources : SourceDeleted(s)

CleanupOrphans ==
    \/ TriggerOrphans \/ Overview \/ Confirm
    \/ (\E s \in Sources : RemoveBlock(s)) \/ BlocksDone
    \/ ReadPage \/ CheckRows \/ Drain \/ Advance \/ DrainAll \/ SweepDone \/ SweepFails

CleanupDuplicates ==
    \/ TriggerDuplicates \/ DuplicatesPage
    \/ (\E r \in Ids : SkipCopy(r) \/ UnlistCopy(r) \/ RemoveCopy(r) \/ CopyFails(r))
    \/ DuplicatesDone

Next == Beside \/ CleanupOrphans \/ CleanupDuplicates \/ Crash

Spec == Init /\ [][Next]_vars

-----------------------------------------------------------------------------
\* No repair takes an archived message out of the search: a document that was
\* written is there as long as its row is, whatever the overview could not look
\* up and whatever is deleted, inserted or reindexed while the sweep runs.  Only a
\* message whose own deletion stopped between document and row is missed.
LiveSearchable == engine.written \cap archive.rows \subseteq engine.docs \cup engine.torn

\* Its own deletions shift the pages behind them, and new documents take the
\* places they leave; a sweep that nobody else's deletion disturbs removes every
\* orphan there was when its walk began, but those the engine failed to delete:
\* a failed task moves the offset as if it had removed them, and still no other
\* orphan is passed over.
OrphansGone == sweep.done => sweep.orphans \cap engine.docs \subseteq sweep.refused

\* Every surplus copy there was at the start is visited: of an archive nobody
\* deletes from meanwhile only protected and differing copies stay.
DuplicatesGone ==
    dups.done =>
        \A r \in dups.start \cap Surplus : ~ Removable(r)

\* As long as the page is not overtaken by a hold or a deletion, a copy that is
\* removed belongs to no protected message, and its content stays in another.
CopiesRemain ==
    [][ \A r \in archive.rows \ archive'.rows :
            dups.fresh /\ dups.pc = "rows" /\ r \in dups.page \ dups'.page =>
                /\ Copies(r) \cap archive.held = {}
                /\ \E q \in Copies(r) \cap archive'.rows : archive.version[q] = archive.version[r]
      ]_vars
=============================================================================
