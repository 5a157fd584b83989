# A verification model of OpenArchiver

OpenArchiver copies mailboxes (Google Workspace, Microsoft 365, IMAP, uploaded
PST, EML and Mbox files) into an archive: rows in Postgres, files on a disk or in
S3, documents in a Meilisearch index. Work is done by BullMQ jobs in Redis, on
several workers, with no transaction across any two of those stores and hardly a
unique index in the first. This directory holds TLA+ models of the parts whose
correctness depends on that, TLC runs that check them on small instances, and
proofs, checked by TLAPS, of what holds for every size.

Paths below are relative to `src/packages/backend/src/`, those of pages to
`src/packages/frontend/src/`.

## 1. The system

### 1.1 Components, their state and their operations

| Component | Code | State | Operations | Model |
|---|---|---|---|---|
| Sync cycles | `services/SyncSessionService.ts`, `jobs/processors/{continuous-sync,initial-import,schedule-continuous-sync,sync-cycle-finished}.processor.ts`, `jobs/helpers/*` | `ingestion_sources.status`, `lastSyncStartedAt`; the `sync_sessions` rows; jobs of the `ingestion` queue | claim a source, list and enqueue its mailboxes, count their reports, finalize, sweep what died, rescue what never got a session | `SyncCycle` |
| Mailbox job | `jobs/processors/process-mailbox.processor.ts` | in memory: in-flight tasks, per-key promise chains, batch for indexing | pull, archive side by side, flush, report | `MailboxJob`, `MailboxContract` |
| Archiving one message | `services/IngestionService.ts` (`processEmail`, `storeEmailOrAdopt`, `getOrCreateAttachmentId`), `services/storage/*` | `archived_emails`, `attachments`, `email_attachments`, stored files, an in-process promise map | three dedup gates, create-if-absent of the file, insert, attachments | `EmailArchive` |
| Deleting a message | `services/ArchivedEmailService.ts` | the same, and the document | unlink, count the other users, delete file, record, document, row | `EmailArchive`, `SearchIndex`, `MessageList`, `MessageView` |
| Search indexing | `services/IndexingService.ts`, `jobs/processors/{index-email-batch,reindex,reconcile-index}.processor.ts`, `workers/indexing.worker.ts` | `is_indexed`, `index_attempts`, the documents, the `indexing` queue | build and send chunks, isolate a refused one, rebuild, reconcile | `SearchIndex` |
| Repairs | `services/{IndexMaintenanceService,ArchiveMaintenanceService}.ts` | documents, rows, files | walk the index by offset and delete documents without a row; rank copies and delete all but one | `Maintenance` |
| Connectors | `services/ingestion-connectors/*` | a mailbox's sync state, working copies of uploads | list, fetch, skip, retry, remember a cursor; split a stream | `GmailSync`, `GraphSync`, `ImapSync` over `MailboxFeed`; `FileImport`, `MboxSplitter`; `Connectors` |
| Source management | `services/IngestionService.ts`, `services/oauth/*`, `api/controllers/ingestion.controller.ts` | the source row, its credentials, merge groups | create, authorise, refresh, edit, pause, resume, import, force sync, merge, unmerge, delete | `SourceCommands`, `CredentialMerge`, `SourcesPage`; force sync also in `SyncCycle` |
| Audit log | `services/AuditService.ts` | a hash chain in `audit_logs` | append under a table lock, verify by pages | `AuditLog` |
| Roles | `iam-policy/*`, `services/{AuthorizationService,FilterBuilder}.ts`, the role dialog | a role's statements | normalise, validate, decide, translate for Postgres and Meilisearch, edit | `Policies` |
| Accounts | `services/{UserService,AuthService,MfaService,MfaRedisStore}.ts` and their pages | users, roles, challenges, codes | first setup, create, edit, delete; enrol, confirm, sign in, renew | `Users`, `SecondFactor` |
| Processes | `workers/*`, `jobs/schedulers/*` | run loops, a heartbeat key, repeatable jobs | respawn, watch, stop, register | `Supervision` |
| Text extraction | `helpers/textExtractor.ts`, `services/{IndexingService,OcrService}.ts` | a serial queue of PDF parses, child processes | read, parse under timer and heap guard, assemble | `TextExtraction` |
| Pages | `routes/dashboard/**` | lists patched beside the server | search, suggestions, sources, messages, one message | `SearchPage`, `ChipInput`, `SourcesPage`, `MessageList`, `MessageView` |
| Everything else | settings, provider id backfill, dashboards, routing, themes | little that outlives a request | | not modelled, section 5 |

### 1.2 How they interact

```
 scheduler tick ──claim──▶ master job ──session row, one job per mailbox──▶ mailbox jobs ◀── connector
      ▲    │                                                                 │   │
      │    └─sweep: re-dispatch, fail, rescue                     processEmail   │report
   source row ◀──status── finalizer ◀──last report dispatches───────────────────┘
      ▲                                    processEmail ──rows, files, links──▶ archive ◀── repairs, deletions
      │                                    mailbox job  ──index-email-batch───▶ indexing queue
 requests: create, authorise, edit, pause, import, delete       indexing queue ──▶ documents, is_indexed
 pages  ──▶ requests; every request ──▶ audit log
```

`SyncCycle` sees a mailbox job as one step with an outcome; `MailboxJob` is that
step taken apart; it sees archiving as a dedup check and an insert, which
`EmailArchive` takes apart, and indexing as a queue it hands ids to, which
`SearchIndex` takes apart. What a connector yields is left open in `MailboxJob`
and is the subject of the connectors' modules, which see archiving as one step.
The assumptions one model makes of the next are stated
where they are used: `MailboxJob` assumes that runs of one mailbox follow one another
(`SyncCycle!OneCycle`), and `EmailArchive` that deliveries of one mailbox under
one dedup key exclude each other (`MailboxJob!KeyExaminedAlone`).
`MailboxContract` is what `SyncCycle` relies on, and `MailboxJob` is shown to
implement it.

### 1.3 What is hard about it

* Every `await` between two statements is a point where another job, worker or
  user runs. Mutual exclusion rests on conditional UPDATEs (`claimForSync`), fixed
  job ids, an in-process promise chain per key, and on nothing at all elsewhere.
* Requests read a row, talk to a provider and write the row back whole.
* A worker may die anywhere; the ingestion worker fails the jobs it held
  (`maxStalledCount: 0`), the indexing worker runs them once more.
* Calls fail, answer late, or succeed after the caller gave up on them.
* Three stores have to agree without a transaction: row and file, row and
  document, record and file of a shared attachment.
* Pages patch their lists with what they expect an answer to mean.

`PROJECT.json` lists forty hazards, each at its line, with the properties that
watch it, or the reason none does.

### 1.4 What makes each component correct

* **Sync cycles**: one cycle per source at a time; each mailbox counted once; a
  success only when every mailbox succeeded; a finalizer only after the last report;
  the sweep condemns only what is dead; a source always comes free again.
* **Mailbox job**: bounded memory; copies of a message examined one at a time and
  archived once over all runs; whatever was archived is queued for indexing; no task
  outlives the report; the job ends.
* **Archiving and deleting**: a row's file exists and holds that row's message; a
  mailbox has one row per message; a message reported as archived has its
  attachments; a deletion takes nothing another email uses.
* **Search indexing**: a row that reads as indexed is searchable; trouble of the
  engine is not held against a message, though a failing storage or database is; a rebuild reaches every row; what can be
  indexed is in the end, what cannot drops out of the scan.
* **Repairs**: no repair takes an archived message out of the search; no orphan and no surplus copy is
  skipped; what is removed leaves a copy of the same content.
* **Connectors**: the stored cursor passes no message that was not archived, but those an
  IMAP folder listed before it failed, and what stays in the mailbox is archived in the end; a working copy outlives its import.
* **Source management**: stored tokens belong to the stored connection; an authorised
  source gets its import; an edit changes only what somebody touched and what the dialog
  sends untouched.
* **Audit log**: one chain; a verification's answer is true.
* **Roles**: three engines, one meaning. **Accounts**: somebody remains, one role each,
  a code opens once. **Processes**: only a signal ends one. **Pages**: what is
  shown is what the server has, what is deleted is what was confirmed.

## 2. The modules

| Module | Role |
|---|---|
| `SyncCycle` | one source's cycles: masters, mailbox jobs, finalizers, the tick, operator commands, crashes |
| `MailboxJob` | one mailbox's job over several runs; implements `MailboxContract`, the abstract job |
| `EmailArchive` | archiving and deleting messages, side by side |
| `SearchIndex` | the indexing queue and its worker, beside deletions and reindex requests |
| `Maintenance` | the orphan sweep and the duplicate cleanup beside archiving, indexing, holds and deletions |
| `Connectors` | composes `GmailSync`, `GraphSync`, `ImapSync` (each implements `MailboxFeed`, the abstract feed), `FileImport` and `MboxSplitter` behind the factory |
| `Administration` | composes five sides without common state: `SourceCommands`, `CredentialMerge`, `Policies`, `AuditLog`, `SecondFactor` |
| `Workspace` | composes six sides without common state: `Supervision`, `TextExtraction`, `SourcesPage`, `Users`, `MessageList`, `MessageView` |
| `WorkspaceSearch` | `Workspace` with two sides more: `SearchPage`, `ChipInput` |
| `MC*` | small instances for TLC: sets of model values, symmetry, the tables of a scenario |
| `*Proofs` | theorems about the module they extend |

Definitions keep the source's names; `PROJECT.json` "map" gives the lines each one
stands for. An operator `X_Fault` is `X` with a plausible bug in it; the mutation
runs replace `X` by it and must find the listed property violated. The
model checker otherwise never uses it. In `Administration`, `Workspace` and `WorkspaceSearch` a variable
`side` says which component a behaviour looks at and never changes: the composition
is a way to check components of similar size together, not a claim that they interact.

### 2.1 SyncCycle

`status`, `startedOld` and `sess` are the source's row and its sessions;
`master`, `mbox`, `fin`, `tick` and `force` are the program counters of the jobs
and of an operator's request. An action is one SQL statement or one queue command.
Time is abstracted to "older than the thirty-minute threshold": `SessionAges` and
`StartAges` may fire when no heartbeat or master prevents it. Session ids are
recycled once nothing refers to them any more (`Free`), which is sound because ids
are only compared. `Spend` bounds faults, delays and operator commands by `Budget`;
`Env` names the kinds a run allows, so that a run says exactly under what faults it holds.
`okBy` and `roster` are history.

### 2.2 MailboxJob and MailboxContract

The job is one JavaScript thread: an action is the code between two awaits. The
loop has `pc`; a task per message goes through `waiting` (for its key's
predecessor), `gate` (dedup SELECT), `insert`, `attach`, `landed`. `keyed`, `prior`
and `inFlight` are the job's maps. A connector may yield, skip, give up on a message,
throw, or report that there is no mailbox. After the run ends, by itself or by a
crash, `NextRun` starts the next job of the mailbox over the same rows.
`MailboxContract` forgets everything but what was offered, the rows, and the outcome.

### 2.3 EmailArchive

A delivery is a message as one mailbox's job offers it; it is also its row's id.
Contents, keys and paths are model values related by constant tables whose
assumptions (`KeysAssumption`) are those of `dedupKeyFor`. Storage is create-if-absent
on a path, as hard links on a file system and `If-None-Match` on S3 give it.
`processEmail` is followed call by call in both storage modes (`preserve`), the attachments
with their cached promises, and `deleteArchivedEmail` with its counts. The cache of promises holds `CacheMax`
entries (5000 in the code, 1 in the run) and drops any other for a new one, where the code drops the oldest.
`torn` remembers the attachments whose promise was dropped before it was kept: the next message asks again, and
a second record is made. The code's comment has an eviction cost one repeated lookup; it does, of a promise that is kept.

### 2.4 SearchIndex

`waiting`, `delayed` and `stalled` are the queue; `run` is what each concurrent slot of
the worker executes and `flush` its chunk in flight: the code builds one chunk while the
one before it is being sent. `docs` is what the engine holds, `isIndexed` and
`attempts` the row's columns. Ghost variables: `gone` (documents the engine lost or a
deletion withdrew), `asked`/`owed` (documents a rebuild has yet to see rewritten),
`hurried` (a rebuild went ahead after its five minutes, or a job runs on without its lock).
Engine tasks fail as a whole when one document is refused. Resetting the flags of one
page (a SELECT and an UPDATE by ids) is one step, and the reconcile job is enabled. Building a document may
fail for any message when its file, its attachments or its rows cannot be read (`unread`, which counts how often):
the code counts that as it counts poison. Of the other statements of a job only those fail that take the whole job along.

### 2.5 Maintenance

`archive` holds rows, holds, sources and the order of archiving, `engine` the documents in an
order of its own; `sweep` and `dups` are the local variables of the two repairs: a page, an
offset or a cursor, what is still to be deleted. The sweep steps forward by what it kept of a page,
because its deletions shift the pages behind; the duplicate walk goes by id and
reads the protection of a page once. `orphans`, `start` and `fresh` are history: what was to be
removed when a run began, and whether others interfered with the page since.
A deletion of a message takes its document (`UnlistCopy`) and then its row (`RemoveCopy`); what fails in between is
`torn`. A deletion task of the engine may fail without throwing: the sweep counts its ids as removed and
steps by what it believes to have kept, and `refused` remembers them. A failed task sets the offset back too far, never too little.
A stalled run is started again once, as the queue does.

### 2.6 The connectors

Each of `GmailSync`, `GraphSync` and `ImapSync` is one mailbox over its cycles: a cycle
reads the stored state, lists and fetches page by page while mail arrives, moves and
goes, skips what cannot be fetched, and ends by storing or discarding the run's state.
The refinement to `MailboxFeed` maps the cursor to the set of messages it has passed.
`FileImport` has two imports on one host, whose process ids are given out again.
`MboxSplitter` cuts every word over four letters up to a length, however it is chunked.

### 2.7 Administration

`SourceCommands`: a request has a program counter and what it read (`cred`, `was`,
`edits`); `PersistTokens` and `UpdateWrites` write whole objects. The identity
provider's attempts, the import job and the number of running cycles are beside it; `stranded`
marks a request that died after its UPDATE or two authorisations that crossed.
`CredentialMerge`: the form opens blank but for its defaults (two TLS boxes that are sent as they are, and the preset of
an OAuth mailbox, which fills in endpoints); fields are filled in, field by field, against
the provider's required ones, and the server merges what arrives (`Resent` names what the dialog sends untouched). `Policies`: CASL's decision, the SQL and the Meilisearch filter are three
evaluations of the same statements, compared over all records of a small universe; the values of a test are a set. `AuditLog`: a hash stands for
payload and predecessor, writers pass `waiting`, `locked` and `read`, the verifier goes page by page.
`SecondFactor` interleaves the awaits of `MfaService` for two tabs and an administrator, with a clock in TOTP
steps and a store that moves from Redis to memory. Behind every change of the row the audit log may refuse its entry
(`AuditFails`): the change stands and the request is answered with an error.

### 2.8 Workspace and WorkspaceSearch

`TextExtraction` counts heap in units a parse grows by; a parse may hang or outgrow, the clock may give up any
(`TimesOut`), a requested collection may be refused (`missed`), and V8 collects by itself at any other time; a document keeps what
was read by the place of its attachment. `Supervision`
has a run loop, a heartbeat and a deadline for each worker, and schedulers that remove
and add registrations. `SearchPage` goes from form to address to query to hits and
back over five documents, of which the engine counts and returns at most three (`MaxTotalHits`, 1000 in the engine); `ChipInput` has requests answered in any order. `SourcesPage` has
the server's groups and the page's list, patched by the answers in whatever order they arrive; a request may be answered as failed
though it is done or half done (`halfDone`, `SyncFails`), and a client of the API may write a merge group itself (`UpdateMerge`,
`remerged`). `Users` interleaves the statements of the user
service from two pages; any of them may fail, the audit entry behind a deletion too (`Fail`). `MessageList` and `MessageView` are a user's deeds beside the
requests they start and beside deletions by others. A deletion may stop after any of its steps (`DeleteFails`): `taken` remembers the
attachments and files such a one took from a message that stays; or it is done and answered as failed (`lost`). A behaviour of `WorkspaceSearch` on a side of
`Workspace` is one of `Workspace` that leaves the rest alone, so the run checks what the theorems are about.

## 3. The runs

All bounds are in the `.cfg` files. A run's `Env` lists what may go wrong.

| Run | Instance | Question |
|---|---|---|
| `SyncCycle_absorbed` | 2 mailboxes, 2 sessions, 2 attempts, any three of the events the design absorbs (worker crash, failing listing, claim, catch or report, repeated import) | one cycle; no double count and no lost report; only the dead are swept; success means all completed; finalizers last |
| `SyncCycle_live` | 1 mailbox, 2 sessions, file source, any one of all 19 events, fairness | the source is released, every session ends |
| `SyncCycle_force` | one force sync | expected violation of `OneCycle` (finding) |
| `MailboxJob` | 3 copies and a draft, 2 slots, batches of 1, 2 runs, fairness | copies examined alone, archived once; nothing outlives the report; archived is queued; implements `MailboxContract`, termination included |
| `EmailArchive` | three worlds of up to four messages of two mailboxes at three paths, two of them deletable, both modes, a cache of one attachment, any one failure or crash | the file is the message; one row; attachments complete; one record per job and kept promise; what nobody deletes keeps its file and attachments |
| `SearchIndex_live` | 3 emails (one unbuildable, one refused), 2 slots, chunks of 2, any one of 13 events, fairness | indexed means searchable; outages of the engine not counted; a rebuild reaches all; good mail is indexed in the end; poison drops out |
| `Connectors` | 2 messages and 2 folders, pages of 1, 4 events of the mailbox and 2 faults (failing IMAP listings and fetches among them); 2 imports, 2 process ids; Mbox files of up to 5 letters; fairness | a working copy is kept; a stream is cut right; every connector implements `MailboxFeed`, which may skip what an IMAP folder listed before it failed, liveness included |
| `Connectors_imap` | an IMAP fetch that fails | expected violation of `NothingLost` (finding) |
| `Maintenance` | 3 ids, 3 versions of a message, 2 sources, pages of 2 and 1, batches of 2, any two of 11 events | live documents stay, but for half a deletion; orphans go, but for refused ones, and surplus copies; contents remain |
| `Administration` | 2 requests, 2 connections, 2 authorisations, one event; 5 providers, 2 inputs, 2 edits; 8 policies, alone and in pairs, 2 changes; 3 writers, 4 entries, pages of 2; 2 tabs, 2 backup codes, 3 requests | tokens fit; authorised sources are imported; edits keep the connection and all that is not resent; three engines agree; the log holds; codes open once |
| `Administration_verify` | 2 writers, 4 entries, pages of 2 | expected violation of `BrokenMeansAltered` (finding) |
| `Workspace` | the instances in `MCWorkspace` | one property for each kind of side, see `Workspace` |

**Why the bounds are enough.** The interesting conflicts are between two actors: two
sessions, two mailboxes of one session (the last reporter and another), two copies of a key
beside a third that joins later (the chain's clean-up), two slots of the indexing worker, two
requests on a row, two tabs, two pages of administrators. Three
emails with chunks of two give a full chunk, a partial one, a page boundary and a scan that
meets poison first; three ids with pages of two and of one give pages that shift under a
sweep, and a group that outlives its page. Four entries in pages of two give a full page, a
partial one and an append between them. One budgeted event exposes every single-fault path; `absorbed` and
`Maintenance` take three and two so that a fault may hit the recovery from another. Two attempts
distinguish a retry from the last attempt. `SecondFactor` lets three requests be sent and one time step pass,
`Users` two calls with one failure, `MessageList` three deeds with one list page and one bulk deletion under way,
`MessageView` two walks through the thread: the least that lets a late answer meet a page that has moved on.
What the bounds cannot show is covered by the proofs of section 4 for every size.

**Symmetry** is used over mailboxes and sessions, requests, connections,
schedulers and pages, in runs without liveness properties only.

**Deadlock** checking is off where what is modelled ends: a mailbox's runs are
bounded, every message is archived or deleted, requests and deeds run out. Elsewhere the
scheduler always has a next step, and deadlock is checked.

### 3.1 Fairness

* `SyncCycle`: the queue hands each waiting job to a worker, a statement returns or throws,
  the repeatable tick fires, locks of a dead worker expire, and time passes. No fairness
  on faults, commands, or a job's choice between success and failure.
* `MailboxJob`: the loop and each task go on. The connector ends or keeps yielding; a
  connector that hangs for ever would hang the job in the code too.
* `SearchIndex`: each slot goes on (weak), backoff and lock timers and the cron fire (weak).
  `IdleWait` is strongly fair: it polls every five seconds and the jobs it waits out come
  half an hour apart, so it does see an idle moment. `DeleteRow` is weakly fair: a deletion
  whose document is gone finishes, unless an `abort` event stops it.
* `Connectors`: a cycle's own steps and the scheduler's next cycle; no fairness on faults,
  nor on what users do in their mailboxes.

### 3.2 Findings

Three runs show the code doing other than its own comments and documents say (`PROJECT.json` "findings"
quotes them): a force sync competes with a running cycle (`SyncCycle_force`); an IMAP
folder whose messages cannot be fetched moves its stored UID past them (`Connectors_imap`);
a verification that goes on behind a page that was not full reports a broken chain of a
log nobody altered (`Administration_verify`).

Two more statements of the code are in `EmailArchive` for a reader and checked by no run, since they are
false: a second mailbox's reference row copies attachment links that are still being
written (`ReferenceWithParts`); a deletion refused by the search engine has already
removed the file (`AbortedIntact`).

### 3.3 What the checked properties do not survive

The runs that pass leave some events out. These are the ones known to break a property,
each found by adding the event to a run's `Env`:

| Event | Breaks | How |
|---|---|---|
| `claimLost` | `OneCycle` | the claim of an import throws without having committed, inside the `try`: the catch writes `error` over a cycle of another job, and the next claim starts a second |
| `enqueueFail` | `OneCycle` | the session and some jobs exist when the master's enqueue fails; its retry starts a second session |
| `slowList` | `OneCycle` | `releaseSessionlessSources` selects, probes and updates in three statements, and a long listing turns into a cycle in between |
| `dispatchFail` with `slowFinalizer` | `OneCycle` | a finalizer outlasting a tick is dispatched again and writes `error` over the next cycle |
| `crashMidRelease` | `OneCycle` | status written, session not deleted: the sweep finalizes again, over the next cycle |
| `pause`, then `resume` | `OneCycle` | a resume writes `active` while mailbox jobs still run |
| `mergeFail`, `dispatchFail` | `CountedOnce` | the counter is incremented before the merge and the dispatch, the catch block reports again |
| `starve` | `SweptIsDead` | jobs that wait half an hour behind another source's import look dead |
| `pause` | `PauseKept` | the finalizer's status is read forty lines before it is written |
| (none) | `MergedBeforeRelease` | the last reporter can finish the cycle before an earlier one merged its sync state |
| `racingDelete` | `EmailsBacked`, a part of `Backed` | a message adopts or shares a file that a deletion has counted as unused |
| `recordFail` | `PartsBacked`, a part of `Backed` | an attachment's file is gone and its record is not: the next message reuses the record |
| `delete` | `WrittenForARow` | an index job has built a document, the email is deleted, then the document is sent |
| `slow` | the conclusion of `RebuildReachesAll` | after five minutes a rebuild goes ahead, rows marked meanwhile stay out, and the reconcile scan only looks at unmarked rows |
| ImapSync's `fetchFail` | `NothingLost` | the finding `Connectors_imap`: listing, the dedup check or a fetch throws behind the raised UID. `KeepsFeed` lets the feed skip exactly what the folder had listed |

Some events a run does allow are excused in the property itself, for the state they spoil and nothing else:

| Event | Excused in | What the code does |
|---|---|---|
| an unreadable file or row (`unread`) | `OutageNotCounted`, `EventuallyIndexed` | counts it as poison: a good message that cannot be read `INDEX_MAX_ATTEMPTS` times is never indexed |
| a deletion failing between document and row (`torn`) | `LiveSearchable` | the row stays and reads as indexed, its document is gone until a rebuild |
| a deletion task that fails (`refused`) | `OrphansGone` | counts its documents as removed: the orphans stay and the report is clean |
| an evicted promise that was not kept (`torn`) | `OnePartPerJob` | a second record of one content |
| a box or a preset nobody touched (`Resent`) | `EditKeepsConnection` | overwrites what was stored |
| a refused collection (`missed`), the clock | `ExtractionHolds` | gives up a healthy PDF |
| a request done but answered as failed (`halfDone`, `stale`, `lost`) | `PageMirrors`, `AccountsHold`, `MessagesHold`, `FactorHolds` | the page goes on showing what was there before |
| a merge group written by a client (`remerged`) | `PageMirrors` | writes `mergedIntoId` unresolved, so that groups are chains |
| a deletion stopping halfway (`taken`) | `MessagesHold` | its own message offers files that are gone; the others keep theirs |

`PauseKept`, `MergedBeforeRelease` and `WrittenForARow` are stated in the modules for a
reader and checked by no run.

### 3.4 Observations beside the models

*Archive and index.* Two deletions that
count each other's rows leave a shared file behind; the check-then-rename fallback of
`LocalFileSystemProvider` (and S3 without conditional writes) is not atomic; a merge
group's child and root covering one mailbox are two jobs with two sets of promise chains; a
message whose attachments fail after its row was inserted is never completed, since the next
run takes the row for a duplicate; with `INDEX_RECONCILE_BACKPRESSURE=1` every
reconcile tick defers to itself; a stalled `index-email-batch` that runs twice counts a bad
document twice; the deletion of a document waits for the engine's task and looks at no status
(`unremoved` in `SearchIndex`). A deletion task that fails leaves the sweep's offset where it was, so that a full page of orphans whose
tasks keep failing is read again and again. A hold that comes while a page of duplicates is being
removed is not seen before the next page; a reconnect of the IMAP `withRetry` opens no mailbox.

*Sources.* A crash between `auth_success` and the start of the import leaves a source the
scheduler never looks at; the newest rotated refresh token is lost when an edit overlaps the
refresh; the page's deletion and unmerge read what is selected when the answer arrives, not when it was asked;
an edit of an IMAP source with the connection unfolded stores `secure` and `allowInsecureCert` as the form
has them by default, and one of an OAuth mailbox with endpoints of its own gets those of the Outlook preset, whereupon its
authorisation is dropped; an update with `mergedIntoId` makes chains of groups, though the schema says
"Flat hierarchy only." (`database/schema/ingestion-sources.ts`);
a source deleted beside its running job leaves files and documents.

*Roles.* Of several operators in one condition SQL and Meilisearch take the first;
duplicate fields in the editor: the last wins; an `$eq` on `ingestionSource.userId` breaks the search. A written `conditions: {}` and that `$eq` are not
among the policies of the model; the visual editor writes neither.

*Audit log.* Entries cut off at its end go unseen; a rolled-back append leaves a gap in the ids.

*Accounts.* Backup codes are used by read, modify and write, so two crossing requests can both
use the list (`crossed` in `SecondFactor`); the mark of a used TOTP step is set after the check and lost when
the store falls back to memory; two deletions that count before they delete can leave no user,
two first setups that cross make two administrators,
and an update that fails between its statements leaves one without a role. When the audit log refuses the entry behind a change, the
request fails and the change stands: the codes of a second factor that was just turned on are then shown to nobody,
and a deleted user stays on the page.

*Processes and pages.* A respawn by the watchdog during a shutdown outlives the signal (`excused`);
a search counts and pages through no more than the engine's 1000 hits, so that later pages are empty and the total is
capped; two replicas share one heartbeat key; a chip with a comma in it is two chips after a
reload; a bulk deletion that is refused halfway leaves deleted rows on the page, and one whose message went
though the answer was 500 leaves it selected; a deletion that stops halfway leaves a message whose attachments or file are gone; an
older, slower parse can overwrite a newer preview (`overtaken`).

## 4. The proofs

Each `*Proofs` module proves, for all values of the constants that satisfy the named
assumptions of its model (finite sets where sets are counted, positive bounds, kinds of events drawn from the
enumerated ones), that a formula of the model is invariant. No fairness is used. Where a theorem
names kinds of events, it is because section 3.3 has a counterexample without.

### 4.1 SyncCycleProofs

Assumes `ConstantsAssumption` (finitely many mailboxes, none called "sweep").

* `TypeCorrect`: `Spec => []TypeOK`.
* `Invariant`: `Spec => []IInv`. Neither `FinalizersComeLast` nor
  `SuccessMeansAllCompleted` is inductive: a finalizer is right only because counters are. `IInv` adds
  `RowCounts` (the columns of a session agree with the set of mailboxes counted),
  `PendingUncounted` (no success of a mailbox still to run or report was counted), `TodoFresh`
  (a master enqueues only mailboxes that have no job yet) and `DispatchersSawAll` (who is about
  to dispatch a finalizer saw the last report). Cardinality facts about the history sets carry the step.
* `FinalizersLast`, `SuccessSound`: the two properties, as corollaries of `Invariant`. `FinalizersLast` speaks of the
  counters; that they are full only when every mailbox has reported is `CountedOnceAlways` (4.4), under its hypothesis.

### 4.2 MailboxJobProofs

Assumes `ConstantsAssumption` (finite messages, positive concurrency, batch and runs).

* `TypeCorrect`, then a chain of invariants, each using the ones before it.
* `LoopInv` (tracked tasks are exactly those in flight, their number is bounded by the slots, none is
  left when the loop is past draining): `SlotsBoundedAlways`, `ReportedMeansSettledAlways`.
* `ChainInv` (the tasks of one key in flight form a chain: a task waits for the one that was
  latest when it began, `keyed` names the last, `ahead` is what precedes it):
  `KeyExaminedAloneAlways`, the mutual exclusion of the promise chains.
* `RowsInv` (a task past the gate saw no row of its key, and none has come since):
  `KeyArchivedOnceAlways`, over any number of runs and crashes.
* `ImplementsContract`: with a lemma that a successful run's offers are all accounted for, every step of the job is a step
  of `MailboxContract` or leaves its variables alone.
* `QueueInv` and `BatchInv`: `ArchivedIsQueuedAlways`, `BatchBoundedAlways`.

### 4.3 SearchIndexProofs

Assumes `ConstantsAssumption` (finite emails and slots, positive sizes and attempts).

* `TypeCorrect`.
* `IndexedSearchable`: `IndexedMeansSearchable` is not inductive, since a row is marked a step after
  its document was confirmed. `MarkInv` adds that every settled and unmarked document (`Settled`) is in the engine or
  accounted for.
* `OutageNeverCounted`: `CountInv` says what a job may count: an unbuilt good email has been
  deleted or could not be read, which `unread` has counted already; a refused document was the refused one (`FirstIsOne`: isolation sends one document at a time).
  It rests on `NamedInv`: every job anywhere in the queue names emails that were archived,
  which survives retries, stalls, crashes and deletions.
* `RebuildSound`: `RebuildInv` says that no document in flight is older than a rebuild that has reset, or is about to reset,
  its flag. It rests on `SlotInv` (slots that index nothing have no chunk in flight) and on a counting argument (`IdleMeansSettled`: with at most
  one active job, the rebuild is it).

### 4.4 SyncCycleProofs, who may work on a source

For each theorem a hypothesis on `Env`.

* `SweptIsDeadAlways`, without `starve`: a session whose heartbeat is old has no job queued or
  at work (`StaleIdle`), and a master that still enqueues keeps it young (`TodoEnqueue`).
* `CountedOnceAlways`, without `starve`, `mergeFail` and `dispatchFail`: `CountInv` counts
  reports and outstanding mailboxes against the total, so a row cannot be released under a running job.
* `OneCycleAlways`, for `Env` within `Absorbed`: `ClaimInv` says who holds a source.
  An open session or a master that has claimed and not yet created one holds it, there is at most one
  holder (`CycleInv`), the status tells, the last reporter is alone (`LastInv`), one finalizer is
  at work and never beside the sweep (`FinInv`, `SweptInv`). Not in `Absorbed`: `force`, `claimLost` and the
  other events of the table in 3.3.

### 4.5 EmailArchiveProofs

Assumes `ConstantsAssumption`; any `Env` unless said otherwise.

* `TypeCorrect`, with `Waits` (a message waits for those of its key that started before it).
* `FileIsTheMessageAlways` by `RightInv`: row and place of a delivery say the hash of its own bytes, or of
  a message with its Message-ID.
* `OneRowPerMessageAlways` by `RowInv`: deliveries that share a key are not at work together
  (`AloneInv`), and what the gates found is still so at the insert (`NewInv`).
* `OnePartPerJobAlways` by `PartInv`: only the owner of a promise in the cache looks up or creates
  (`CacheInv`), and the job has made no record since (`CreateInv`), unless the cache dropped the
  promise before it was kept (`torn`). `RoomKeepsPromises`: a cache with room for every attachment drops none.
* `ArchivedWithPartsAlways`: beside any deletion of other messages.
* `BackedAlways`, without `racingDelete` and `recordFail`: what a deletion counted is still so when
  it removes the file or the record.

### 4.6 MaintenanceProofs

Assumes `MaintenanceAssumption`; any `Env`.

* `TypeCorrect`: the offset in particular, which the sweep sets back, stays a natural number.
* `LiveStaysSearchable`: whatever is pending for deletion, in a batch or by source, has no row (ids are never reused), and a row
  whose document is gone is one whose deletion stopped between the two (`torn`).
* `NoOrphanMissed` by `OrphanInv`: all documents are in different places, and every orphan of the start that is
  still there is pending, on the page, or at a place the offset has not passed (`Covered`), where the offset is
  at most what the sweep kept of the pages before: a task that fails sets it back by documents that are still there, which are `refused`. Counting places is most of the proof.
* `NoDuplicateMissed` and `NoContentLost` by `Walk`: what the cursor has passed and is still there was kept (`Visited`), and what is
  removable has a row of the same content that is not (`Spared`).

### 4.7 AdministrationProofs

Assumes `AdministrationAssumption`: for the log, positive pages and no null hash; hashes are free of
collisions by construction.

* `TokensFitAlways`, `AuthorizedHasImportAlways` by `CommandInv`: beside the types, what each request under
  way has read of the row fits itself (`FitsRequest`), because no
  authorisation that was asked for changes its connection (`AttemptsKept`) and writers write whole objects.
* `EditKeepsConnectionAlways` by `FormInv`: the stored configuration can connect, and the form's
  has the fields it was opened with, what was touched and what it sends untouched (`FormShape`). So both merges keep every field that
  nobody touched and the dialog does not resend; of the boxes and the preset it says only that the source can still connect.
* `LogIsOneChain`, of `AuditLog` alone: at most one writer is between reading the latest hash and its commit, and
  what it read is still the latest.
* `FailureIsExplained`, `VerdictHolds` by `WInv`: a walk knows a prefix of the chain; on an altered table a break lies
  ahead of it, or where it will find it (`BreakAhead`, `WalkToTheBreak`).
* `LogHoldsAlways` carries `WInv` over to the composition.
* `FactorHoldsAlways` by `FactorInv`. A request under way has read
  what is still so unless another crossed it; the phone has the secret, and nobody has seen the codes,
  that it may still write; no store forgets a code while a check would accept it, for which `FactorAssumption`
  says that used codes are kept for longer than the tolerated drift. An audit entry that fails changes no row, so the
  codes that open once are those of the row; a page that was told of a failure is `stale`.
* `PoliciesHoldAlways` by `PolicyInv`: what the visual editor saved last is a list of statements without issues, of
  which the role's policies are the translation, and the dialog holds statements or policies of the editor's
  grammar. The rest is about the engines and holds of every list of policies: among the rules that match a last one
  decides (`LargestOf`), the query never passes an unconditional one (`ListedOpens`), both
  translations of a test find the same messages (`SameMatches`), and a statement is its policy taken apart and put together
  again, but for padding and blanks (`Shows`, `WritesBack`, `FoundAgain`). `PolicyAssumption` confines the policies to
  the editor's fields and four operators, one test per field; JSON of other kinds is not modelled.

### 4.8 WorkspaceProofs

Assumes `WorkspaceAssumption`; one invariant for each side of `Workspace`.

* `ProcessesHoldAlways` by `ProcessInv`: a scheduler that has listed a job's registrations still has every old
  one to remove (`RegistrationInv`), so that whoever finishes last leaves the one.
* `AccountsHoldAlways` by `AccountInv`. Every account that no request has crossed has its role unless a request is
  between stripping and giving (`RoleInv`), a log that lacks at most the one change that is on its way (`TrailInv`) and
  an address that nobody took since the request looked (`TakenInv`). A request whose audit entry fails ends like one that
  failed earlier, and the page it came from counts as stale. Two accounts are there while a deletion
  is past its count (`RemainInv`). A page that no write of another has made stale shows the table, but for
  the row its own request has already written (`ListInv`).
* `MessagesHoldAlways` by `BrowseInv` (what is on screen, on its way there or ticked is of the source listed) and by
  `ReadInv`, which is `ViewInv` with `Shares`: a file a stopped deletion took was that message's alone, so that whoever else
  carries it still has it. Every load of a message is later than the one on screen (`Loads`), nothing parsed or drawn is
  younger, and for every display the newest parse is still at work, drawn or overtaken (`Newest`). A step that finds
  the message gone draws an empty page, from which no step returns to a message.
* `PageMirrorsAlways` by `PageInv`. That the lists agree once all is answered says nothing of the time until then. So
  every request under way has an area, the groups it was sent for and the source it creates. Without slips
  the areas are apart and no group lies across the edge of one, on either list (`Apart`, `ClosedAreas`); outside of all
  the lists agree (`SameElsewhere`), and inside they differ by just what that request has removed and changed so
  far (`Expected`: `Gone`, `Due`). Nothing but its own request mentions a source before its creation is answered
  (`Mentions`), or one could be merged into what the page does not list. A slip lasts until the page is reloaded, when nothing
  is under way; the other parts, flat groups among them, hold with slips too, but for a merge group that a client of
  the API wrote (`PagesInv`): it lasts, and nothing is promised of the page from then on.
* `ExtractionHoldsAlways` by `TextInv`. At most one parser is there, so that the sum over the parsers is what it
  holds (`HeapUsedIs`). The heap never grows twice between two samples, and after a sample it is at or below the hard
  stop (`HeapInv`); the remains of a parse are garbage until the collection that lets the next one begin, or
  longer if that is refused (`missed`): what must stay below the limit is what is alive, since V8 collects the rest when the heap is full. Hence
  what the theorem assumes and a run cannot tell: between the hard stop (0.85 of the limit) and the limit there is
  room for one sample, and a healthy PDF grows within budget and hard stop (`ExtractionAssumption`). For the
  documents, what a place on the way tells of the attachment there (`Fated`).

### 4.9 ConnectorsProofs

Assumes `ConnectorAssumption`: finitely many numbered messages, positive pages and limits, Mbox files over the
splitter's four letters. One invariant for each connector, over the stored state, the state of the run and the mailbox.

* `ImplementsFeed`: every step of a connector is a step of `MailboxFeed` under the mapping that the run `Connectors`
  checks, or a stutter; uploads have no feed. The stored state has passed only what is archived (`GmailKept`,
  `GraphKept`, `ImapKept`), and that is inductive only with what is true of the state a run will store. Until
  the run has failed, what its marker has passed is archived, or on the page, or on a page not yet listed (`GmailCovered`);
  what its tokens have passed is archived, or, in the folder at hand, still to do (`GraphCovered`, `GraphRunKept`); what its
  highest UIDs have passed is archived but for the window at hand (`ImapRunKept`, `ImapBatch`, `ImapWindow`). An IMAP
  folder that fails while it lists, checks or fetches has raised its highest UID before: what it had listed and not archived is
  skipped (`Skip` of the feed), nothing else. No hypothesis on `Env`.
* `NothingLostAlways` follows from the abstract feed alone: what has been passed is archived, excused or skipped; and only failing
  IMAP folders skip (`OnlyImapSkips`), so that without them nothing is lost.
* `CopyKeptAlways`, for any `Env`, by `UploadInv`: the process of an import at work is alive, and its copy is young
  until its marker file is written and under the name of that process from then on (`ImportKept`), and a
  sweep takes neither.
* `SplitAgreesAlways`, for any files and `Env`, by `SplitInv`: from the first chunk on, the buffer is a stretch of the
  text (the file, with the "From " that it may lack) up to what has been read. A message starts where that stretch does,
  and what has come out is placed on exactly the messages that start before it (`Placed`). A chunk prolongs the
  stretch, and since the bytes agree a delimiter in the buffer is one of the text. A cut takes the first of them, so that
  its mail is the text's next message (`StreamCut`, `NextPlace`), and the flush takes the last message or, of an empty
  buffer, none (`StreamEnds`). Each step follows from the positions, with no induction over the sequences.

### 4.10 Only model-checked

* Liveness: `CyclesEnd`, `EventuallyIndexed`, `PoisonDropsOut` and the
  liveness halves of `KeepsContract` and `KeepsFeed`. The prover handles neither ENABLED nor fairness here.
* `SearchIsExact`: what folds and sorted sets compute over the sequences of tokens, which needs induction over data.

## 5. Not modelled

Settings (one row read, merged and written; of two updates the later stands), the backfill of provider ids (one
idempotent scan), dashboards and lists of jobs, routing and rate limits, API keys, themes and
translations, generated migrations, the pages of Enterprise features whose services are
not in the repository. Of what is modelled, these are outcomes rather than models: parsing of PST folders and
of one message, conversions of document formats, ranking and typo tolerance of the search, the HTTP
exchange with identity providers, encryption at rest. `PROJECT.json` "components" has the reason for each.

## 6. Running

    tlc -workers 2 -config Maintenance.cfg MCMaintenance.tla
    tlapm MaintenanceProofs.tla

Each run ends within five minutes on two workers. The longest are `Administration`, `Workspace`
and `Maintenance`, two to four minutes each.
