---------------------------- MODULE SearchIndex -----------------------------
(***************************************************************************)
(* Keeping the search index in step with the archive: the indexing queue   *)
(* and its worker, the index-email-batch job with its pipelined flush and  *)
(* per-document isolation, the reindex and reconcile-index jobs, and the   *)
(* row and document halves of a deletion.  The engine and the database     *)
(* change in separate steps, in any order the concurrent jobs give them.   *)
(***************************************************************************)
EXTENDS Naturals, Sequences, FiniteSets, SequencesExt

CONSTANTS
    Emails,         \* ids of archived emails, in id order
    Unbuildable,    \* those whose document cannot be built: a corrupt .eml
    Refused,        \* those whose document the engine refuses
    Batches,        \* what the mailbox jobs archive and hand over together
    Scopes,         \* what a reindex covers: everything, or one source's group
    Workers,        \* the jobs the worker runs at once: workerConcurrency
    ChunkSize,      \* indexingChunkSize
    BatchSize,      \* indexingBatchSize
    PageCap,        \* reconcilePageCap
    Threshold,      \* reconcileBackpressureThreshold
    JobAttempts,    \* the attempts of a job that states none
    MaxAttempts,    \* maxIndexAttempts
    Env,            \* what may happen besides, see below
    Budget          \* bound: how many such events

\* unread: a message's file or rows cannot be read while its document is built.
\* down: the engine fails a request.  late: it answers too late, having done
\* the work.  crash: the worker process dies.  stall: a running job loses its
\* lock.  slow: the rebuild stops waiting for the queue.  lost: an email is
\* archived and its job is not queued.  wipe: the engine loses a document.
\* rebuild, missing: a user asks for a reindex.  delete: a user deletes an
\* email; unremoved: so, and the engine fails the task that removes the
\* document; abort: the deletion stops after the document went.
EnvKinds == { "unread", "down", "late", "crash", "stall", "slow", "lost", "wipe", "rebuild", "missing",
              "delete", "unremoved", "abort" }

ASSUME ConstantsAssumption ==
    /\ Emails \subseteq Nat /\ IsFiniteSet(Emails) /\ IsFiniteSet(Workers)
    /\ Unbuildable \subseteq Emails /\ Refused \subseteq Emails
    /\ Batches \subseteq SUBSET Emails /\ Scopes \subseteq SUBSET Emails
    /\ { ChunkSize, BatchSize, PageCap, Threshold, JobAttempts, MaxAttempts } \subseteq Nat \ {0}
    /\ Env \subseteq EnvKinds /\ Budget \in Nat

VARIABLES
    rows,       \* archived_emails
    deleted,    \* the rows that are no more
    isIndexed,  \* the rows whose is_indexed is set
    attempts,   \* index_attempts
    docs,       \* the documents in the engine
    waiting,    \* the queue's waiting list
    delayed,    \* its failed jobs that wait out their backoff
    stalled,    \* jobs of a dead worker whose locks have not expired
    run,        \* what each concurrent slot of the worker is doing
    flush,      \* its chunk in flight to the engine
    deleting,   \* emails whose deletion removed the document and not yet the row
    asked,      \* ghost: documents not written since each slot's rebuild began
    owed,       \* ghost: those of them whose flag it has reset
    gone,       \* ghost: documents lost or withdrawn, not written since
    unread,     \* ghost: how often each message could not be read for its document
    hurried,    \* ghost: a rebuild did not wait for the jobs in flight
    events      \* events of the environment so far

rowVars == << rows, deleted, isIndexed, attempts >>
docVars == << docs, asked, owed, gone >>
queueVars == << waiting, delayed, stalled >>
vars == << rowVars, docVars, queueVars, run, flush, deleting, unread, hurried, events >>

-----------------------------------------------------------------------------
(* Jobs, and the slots they run in. *)

Batch(ids) == [name |-> "index-email-batch", ids |-> ids, tries |-> 0, stalls |-> 0]
Reindex(mode, ids) == [name |-> mode, ids |-> ids, tries |-> 0, stalls |-> 0]
Reconcile == [name |-> "reconcile-index", ids |-> {}, tries |-> 0, stalls |-> 0]

JobNames == { "index-email-batch", "rebuild", "missing", "reconcile-index" }
Jobs == [name : JobNames, ids : SUBSET Emails, tries : 0 .. JobAttempts, stalls : 0 .. 1]

Attempts(job) == IF job.name \in { "rebuild", "missing" } THEN 1 ELSE JobAttempts

NoFlush == [pc |-> "none", docs |-> {}, ok |-> {}, refused |-> {}]
Free == [pc |-> "free", job |-> Reconcile, rest |-> {}, built |-> {}, unbuilt |-> {},
         past |-> {}, pages |-> 0, ghost |-> FALSE]

BatchPc == { "build", "collect" }
RunPc == BatchPc \cup { "free", "idleWait", "reset", "check", "scan" }
FlushPc == { "none", "send", "mark", "isolate", "record", "recordFailed", "failed" }

Runs == [pc : RunPc, job : Jobs, rest : SUBSET Emails, built : SUBSET Emails,
         unbuilt : SUBSET Emails, past : SUBSET Emails, pages : 0 .. PageCap - 1,
         ghost : BOOLEAN]
Flushes == [pc : FlushPc, docs : SUBSET Emails, ok : SUBSET Emails, refused : SUBSET Emails]

\* The jobs the queue counts as active: a stalled job is back in the waiting list.
Active == { w \in Workers : run[w].pc # "free" /\ ~run[w].ghost }
ActiveCount == Cardinality(Active) + Len(stalled)

\* Where a keyset cursor on the last of some ids is: the ids it has passed.
UpTo(S) == { e \in Emails : \E d \in S : e <= d }

\* The first n ids of a set, in id order.
FirstOf(n, S) == { e \in S : Cardinality({ d \in S : d < e }) < n }

TypeOK ==
    /\ rows \subseteq Emails /\ deleted \subseteq Emails \ rows
    /\ isIndexed \subseteq rows
    /\ attempts \in [Emails -> Nat]
    /\ docs \subseteq Emails
    /\ { waiting, delayed, stalled } \subseteq Seq(Jobs)
    /\ run \in [Workers -> Runs] /\ flush \in [Workers -> Flushes]
    /\ deleting \subseteq rows
    /\ asked \in [Workers -> SUBSET Emails]
    /\ { owed, gone } \subseteq SUBSET Emails
    /\ unread \in [Emails -> Nat]
    /\ hurried \in BOOLEAN
    /\ events \in 0 .. Budget

Init ==
    /\ rows = {} /\ deleted = {} /\ isIndexed = {} /\ attempts = [e \in Emails |-> 0]
    /\ docs = {} /\ waiting = << >> /\ delayed = << >> /\ stalled = << >>
    /\ run = [w \in Workers |-> Free]
    /\ flush = [w \in Workers |-> NoFlush]
    /\ deleting = {} /\ asked = [w \in Workers |-> {}] /\ owed = {} /\ gone = {}
    /\ unread = [e \in Emails |-> 0] /\ hurried = FALSE /\ events = 0

Happens(kind) == kind \in Env /\ events < Budget /\ events' = events + 1

\* addDocuments upserts by id.
Write(S) ==
    /\ docs' = docs \cup S
    /\ asked' = [w \in Workers |-> asked[w] \ S]
    /\ owed' = owed \ S
    /\ gone' = gone \ S

\* (Faulty variants, named *_Fault, are what the mutation runs put in place of
\* the definition that follows them.)

\* UPDATE ... WHERE id IN (ids) reaches the rows there are.
Mark(S) == isIndexed' = isIndexed \cup (S \cap rows)
Count(S) == attempts' = [e \in Emails |-> IF e \in S \cap rows THEN attempts[e] + 1 ELSE attempts[e]]

Release(w) == run' = [run EXCEPT ![w] = Free] /\ flush' = [flush EXCEPT ![w] = NoFlush]
Goto(w, pc) == run' = [run EXCEPT ![w].pc = pc]

-----------------------------------------------------------------------------
(* The worker takes a job off the queue, and a job that throws backs off. *)

FirstPc(job) == CASE job.name = "index-email-batch" -> "build"
                  [] job.name = "rebuild" -> "idleWait"
                  [] job.name = "missing" -> "reset"
                  [] job.name = "reconcile-index" -> "check"

\* A batch job first drops the ids already marked indexed.
Take(w) ==
    /\ run[w].pc = "free" /\ waiting # << >>
    /\ LET job == Head(waiting) IN
           run' = [run EXCEPT ![w] = [Free EXCEPT !.pc = FirstPc(job), !.job = job,
                                                  !.rest = job.ids \ isIndexed]]
    /\ waiting' = Tail(waiting)
    /\ asked' = [asked EXCEPT ![w] = IF Head(waiting).name = "rebuild" THEN rows ELSE {}]
    /\ UNCHANGED << rowVars, docs, owed, gone, delayed, stalled, flush, deleting, unread, hurried, events >>

\* The job returns.  A slot whose job stalled has no hold on it any more.
Complete(w) ==
    /\ Release(w)
    /\ UNCHANGED queueVars

Throw(w) ==
    /\ Release(w)
    /\ LET job == [run[w].job EXCEPT !.tries = @ + 1] IN
           delayed' = IF run[w].ghost \/ job.tries >= Attempts(job)
                      THEN delayed ELSE Append(delayed, job)
    /\ UNCHANGED << waiting, stalled >>

Promote ==
    /\ \E i \in 1 .. Len(delayed) :
           /\ waiting' = Append(waiting, delayed[i])
           /\ delayed' = RemoveAt(delayed, i)
    /\ UNCHANGED << rowVars, docVars, stalled, run, flush, deleting, unread, hurried, events >>

-----------------------------------------------------------------------------
(* index-email-batch: a chunk is built while the one before it is in flight. *)

\* A read that fails is not told from a message that cannot be built.
BuildChunk(w) ==
    /\ run[w].pc = "build" /\ run[w].rest # {}
    /\ \E missed \in SUBSET FirstOf(ChunkSize, run[w].rest) :
           /\ IF missed = {} THEN UNCHANGED events ELSE Happens("unread")
           /\ unread' = [e \in Emails |-> IF e \in missed THEN unread[e] + 1 ELSE unread[e]]
           /\ LET chunk == FirstOf(ChunkSize, run[w].rest)
                  built == (chunk \cap rows) \ (Unbuildable \cup missed)
              IN  run' = [run EXCEPT ![w].pc = "collect", ![w].rest = @ \ chunk,
                                     ![w].built = built, ![w].unbuilt = chunk \ built]
    /\ UNCHANGED << rowVars, docVars, queueVars, flush, deleting, hurried >>

\* collectFlush of the chunk before; the build failures are counted only after it.
Collect(w) ==
    /\ run[w].pc = "collect" /\ flush[w].pc = "none"
    /\ Count(run[w].unbuilt)
    /\ run' = [run EXCEPT ![w].pc = "build", ![w].built = {}, ![w].unbuilt = {}]
    /\ flush' = IF run[w].built = {} THEN flush
                ELSE [flush EXCEPT ![w] = [NoFlush EXCEPT !.pc = "send", !.docs = run[w].built]]
    /\ UNCHANGED << rows, deleted, isIndexed, docVars, queueVars, deleting, unread, hurried, events >>

FinishBatch(w) ==
    /\ run[w].pc = "build" /\ run[w].rest = {} /\ flush[w].pc = "none"
    /\ Complete(w)
    /\ UNCHANGED << rowVars, docVars, deleting, unread, hurried, events >>

\* The failed flush is awaited once the next chunk is built, or none is left.
FailBatch(w) ==
    /\ run[w].pc = "collect" \/ (run[w].pc = "build" /\ run[w].rest = {})
    /\ flush[w].pc = "failed"
    /\ Throw(w)
    /\ UNCHANGED << rowVars, docVars, deleting, unread, hurried, events >>

\* Fault: the end of the task is awaited, its status is not looked at.
Send_Fault(w) ==
    /\ flush[w].pc = "send"
    /\ IF flush[w].docs \cap Refused = {} THEN Write(flush[w].docs) ELSE UNCHANGED docVars
    /\ flush' = [flush EXCEPT ![w].pc = "mark"]
    /\ UNCHANGED << rowVars, queueVars, run, deleting, unread, hurried, events >>

\* The engine runs a task as a whole: one refused document refuses them all.
Send(w) ==
    /\ flush[w].pc = "send"
    /\ IF flush[w].docs \cap Refused = {}
       THEN Write(flush[w].docs) /\ flush' = [flush EXCEPT ![w].pc = "mark"]
       ELSE UNCHANGED docVars /\ flush' = [flush EXCEPT ![w].pc = "isolate"]
    /\ UNCHANGED << rowVars, queueVars, run, deleting, unread, hurried, events >>

MarkIndexed(w) ==
    /\ flush[w].pc = "mark"
    /\ Mark(flush[w].docs)
    /\ flush' = [flush EXCEPT ![w] = NoFlush]
    /\ UNCHANGED << rows, deleted, attempts, docVars, queueVars, run, deleting, unread, hurried, events >>

\* indexDocumentsIndividually: one document of the chunk after the other.
Isolate(w) ==
    /\ flush[w].pc = "isolate"
    /\ LET first == FirstOf(1, flush[w].docs) IN
           IF first \cap Refused = {}
           THEN /\ Write(first)
                /\ flush' = [flush EXCEPT ![w].docs = @ \ first, ![w].ok = @ \cup first,
                                 ![w].pc = IF flush[w].docs = first THEN "record" ELSE "isolate"]
           ELSE /\ UNCHANGED docVars
                /\ flush' = [flush EXCEPT ![w].docs = @ \ first, ![w].refused = @ \cup first,
                                 ![w].pc = IF flush[w].docs = first THEN "record" ELSE "isolate"]
    /\ UNCHANGED << rowVars, queueVars, run, deleting, unread, hurried, events >>

\* Fault: only what succeeded is recorded.
Record_Fault(w) ==
    /\ flush[w].pc \in { "record", "recordFailed" }
    /\ Mark(flush[w].ok)
    /\ flush' = [flush EXCEPT ![w] = IF flush[w].pc = "record" THEN NoFlush
                                     ELSE [NoFlush EXCEPT !.pc = "failed"]]
    /\ UNCHANGED << rows, deleted, attempts, docVars, queueVars, run, deleting, unread, hurried, events >>

\* Its finally block: what was settled is recorded, whether or not it threw.
Record(w) ==
    /\ flush[w].pc \in { "record", "recordFailed" }
    /\ Mark(flush[w].ok) /\ Count(flush[w].refused)
    /\ flush' = [flush EXCEPT ![w] = IF flush[w].pc = "record" THEN NoFlush
                                     ELSE [NoFlush EXCEPT !.pc = "failed"]]
    /\ UNCHANGED << rows, deleted, docVars, queueVars, run, deleting, unread, hurried, events >>

\* Fault: a chunk that got no answer counts against its documents.
EngineTrouble_Fault(w) ==
    /\ flush[w].pc \in { "send", "isolate" }
    /\ Happens("down")
    /\ Count(flush[w].docs)
    /\ flush' = [flush EXCEPT ![w].pc = IF @ = "send" THEN "failed" ELSE "recordFailed"]
    /\ UNCHANGED << rows, deleted, isIndexed, docVars, queueVars, run, deleting, unread, hurried >>

\* Neither a refusal nor an answer: rethrown, and nothing is counted.
EngineTrouble(w) ==
    /\ flush[w].pc \in { "send", "isolate" }
    /\ \/ Happens("down") /\ UNCHANGED docVars
       \/ /\ Happens("late")
          /\ LET sent == IF flush[w].pc = "send" THEN flush[w].docs ELSE FirstOf(1, flush[w].docs) IN
                 sent \cap Refused = {} /\ Write(sent)
    /\ flush' = [flush EXCEPT ![w].pc = IF @ = "send" THEN "failed" ELSE "recordFailed"]
    /\ UNCHANGED << rowVars, queueVars, run, deleting, unread, hurried >>

-----------------------------------------------------------------------------
(* reindex and reconcile-index. *)

\* Rebuilds that wait for each other do so until their time is up.
OnlyWaits == stalled = << >> /\ \A u \in Active : run[u].pc = "idleWait"

\* Fault: the reset does not wait.
IdleWait_Fault(w) ==
    /\ run[w].pc = "idleWait"
    /\ Goto(w, "reset")
    /\ UNCHANGED << rowVars, docVars, queueVars, flush, deleting, unread, hurried, events >>

\* waitForIndexingIdle: until no other job is active, or the time is up.
IdleWait(w) ==
    /\ run[w].pc = "idleWait"
    /\ \/ ActiveCount <= 1 /\ UNCHANGED << unread, hurried, events >>
       \/ ActiveCount > 1 /\ OnlyWaits /\ UNCHANGED << unread, hurried, events >>
       \/ ActiveCount > 1 /\ ~OnlyWaits /\ hurried' = TRUE /\ Happens("slow")
    /\ Goto(w, "reset")
    /\ UNCHANGED << rowVars, docVars, queueVars, flush, deleting, unread >>

\* resetIndexedFlagChunked, then the scan of enqueueIndexBacklog.
Reset(w) ==
    /\ run[w].pc = "reset"
    /\ LET scope == run[w].job.ids \cap rows
           hit == IF run[w].job.name = "rebuild" THEN scope ELSE scope \ isIndexed
       IN  /\ isIndexed' = isIndexed \ hit
           /\ attempts' = [e \in Emails |-> IF e \in hit THEN 0 ELSE attempts[e]]
           /\ owed' = owed \cup (asked[w] \cap scope)
    /\ asked' = [asked EXCEPT ![w] = {}]
    /\ Goto(w, "scan")
    /\ UNCHANGED << rows, deleted, docs, gone, queueVars, flush, deleting, unread, hurried, events >>

\* Fault: the tick takes itself for other work.
Check_Fault(w) ==
    /\ run[w].pc = "check"
    /\ IF waiting = << >> /\ delayed = << >> /\ ActiveCount < 1
       THEN Goto(w, "scan") /\ UNCHANGED << queueVars, flush >>
       ELSE Complete(w)
    /\ UNCHANGED << rowVars, docVars, deleting, unread, hurried, events >>

\* Deferred while the queue holds anything but the reconcile job itself.
Check(w) ==
    /\ run[w].pc = "check"
    /\ IF waiting = << >> /\ delayed = << >> /\ ActiveCount <= 1 /\ ActiveCount < Threshold
       THEN Goto(w, "scan") /\ UNCHANGED << queueVars, flush >>
       ELSE Complete(w)
    /\ UNCHANGED << rowVars, docVars, deleting, unread, hurried, events >>

\* The rows a scan is over, beyond its cursor.
Backlog(w) ==
    LET missing == rows \ isIndexed IN
    { e \in IF run[w].job.name = "reconcile-index"
            THEN { d \in missing : attempts[d] < MaxAttempts }
            ELSE missing \cap run[w].job.ids : e \notin run[w].past }

\* One page of enqueueIndexBacklog, a job for each.
Scan(w) ==
    /\ run[w].pc = "scan"
    /\ LET page == FirstOf(BatchSize, Backlog(w))
           capped == run[w].job.name = "reconcile-index" /\ run[w].pages + 1 = PageCap
       IN  IF page = {} THEN Complete(w)
           ELSE /\ waiting' = Append(waiting, Batch(page))
                /\ UNCHANGED << delayed, stalled >>
                /\ IF capped \/ Cardinality(page) < BatchSize THEN Release(w)
                   ELSE /\ run' = [run EXCEPT ![w].past = UpTo(page),
                                       ![w].pages = IF run[w].job.name = "reconcile-index"
                                                    THEN @ + 1 ELSE @]
                        /\ UNCHANGED flush
    /\ UNCHANGED << rowVars, docVars, deleting, unread, hurried, events >>

\* The repeatable job comes round; its next iteration is parked while one runs.
Tick ==
    /\ \A jobs \in { waiting, delayed, stalled } :
           \A i \in 1 .. Len(jobs) : jobs[i].name # "reconcile-index"
    /\ \A w \in Workers : run[w].pc # "free" => run[w].job.name # "reconcile-index"
    /\ waiting' = Append(waiting, Reconcile)
    /\ UNCHANGED << rowVars, docVars, delayed, stalled, run, flush, deleting, unread, hurried, events >>

-----------------------------------------------------------------------------
(* The mailbox jobs archive; users ask for a reindex or delete an email. *)

Archive(S) ==
    /\ S \cap (rows \cup deleted) = {}
    /\ rows' = rows \cup S
    /\ \/ waiting' = Append(waiting, Batch(S)) /\ UNCHANGED events
       \/ Happens("lost") /\ UNCHANGED waiting
    /\ UNCHANGED << deleted, isIndexed, attempts, docVars, delayed, stalled, run, flush,
                    deleting, unread, hurried >>

Request(mode, scope) ==
    /\ Happens(mode)
    /\ waiting' = Append(waiting, Reindex(mode, scope))
    /\ UNCHANGED << rowVars, docVars, delayed, stalled, run, flush, deleting, unread, hurried >>

\* deleteArchivedEmail waits for the task, and looks at no status.
DeleteDocument(e) ==
    /\ e \in rows \ deleting
    /\ \/ /\ Happens("delete")
          /\ docs' = docs \ {e} /\ gone' = gone \cup ({e} \cap docs)
       \/ Happens("unremoved") /\ UNCHANGED << docs, gone >>
    /\ deleting' = deleting \cup {e}
    /\ UNCHANGED << rowVars, asked, owed, queueVars, run, flush, unread, hurried >>

DeleteRow(e) ==
    /\ e \in deleting
    /\ rows' = rows \ {e} /\ deleted' = deleted \cup {e}
    /\ isIndexed' = isIndexed \ {e}
    /\ owed' = owed \ {e}
    /\ deleting' = deleting \ {e}
    /\ UNCHANGED << attempts, docs, asked, gone, queueVars, run, flush, unread, hurried, events >>

AbortDelete(e) ==
    /\ e \in deleting
    /\ "abort" \in Env
    /\ deleting' = deleting \ {e}
    /\ UNCHANGED << rowVars, docVars, queueVars, run, flush, unread, hurried, events >>

-----------------------------------------------------------------------------
(* The worker process and the engine. *)

Again(job) == [job EXCEPT !.stalls = 1]

\* A dead worker's jobs stay active until their locks expire.
Crash ==
    /\ Active # {} /\ Happens("crash")
    /\ \E order \in SetToSeqs(Active) :
           stalled' = stalled \o [ i \in 1 .. Len(order) |-> run[order[i]].job ]
    /\ run' = [w \in Workers |-> Free] /\ flush' = [w \in Workers |-> NoFlush]
    /\ asked' = [w \in Workers |-> {}]
    /\ UNCHANGED << rowVars, docs, owed, gone, waiting, delayed, deleting, unread, hurried >>

\* maxStalledCount is 1: a job that stalled before fails, whatever its attempts.
Requeue ==
    /\ stalled # << >>
    /\ stalled' = Tail(stalled)
    /\ waiting' = IF Head(stalled).stalls = 0 THEN << Again(Head(stalled)) >> \o waiting ELSE waiting
    /\ UNCHANGED << rowVars, docVars, delayed, run, flush, deleting, unread, hurried, events >>

\* A job that cannot renew its lock is queued again while it runs on.
Stall(w) ==
    /\ run[w].pc # "free" /\ ~run[w].ghost /\ Happens("stall")
    /\ run' = [run EXCEPT ![w].ghost = TRUE]
    /\ waiting' = IF run[w].job.stalls = 0 THEN << Again(run[w].job) >> \o waiting ELSE waiting
    /\ hurried' = TRUE
    /\ UNCHANGED << rowVars, docVars, delayed, stalled, flush, deleting, unread >>

Wipe(e) ==
    /\ e \in docs /\ Happens("wipe")
    /\ docs' = docs \ {e} /\ gone' = gone \cup {e}
    /\ UNCHANGED << rowVars, asked, owed, queueVars, run, flush, deleting, unread, hurried >>

WorkerNext(w) ==
    \/ Take(w) \/ BuildChunk(w) \/ Collect(w) \/ FinishBatch(w) \/ FailBatch(w)
    \/ Send(w) \/ MarkIndexed(w) \/ Isolate(w) \/ Record(w)
    \/ IdleWait(w) \/ Reset(w) \/ Check(w) \/ Scan(w)

Next ==
    \/ \E w \in Workers : WorkerNext(w) \/ EngineTrouble(w) \/ Stall(w)
    \/ Promote \/ Requeue \/ Tick \/ Crash
    \/ \E S \in Batches : Archive(S)
    \/ \E mode \in { "rebuild", "missing" }, scope \in Scopes : Request(mode, scope)
    \/ \E e \in Emails : DeleteDocument(e) \/ DeleteRow(e) \/ AbortDelete(e) \/ Wipe(e)

Spec == Init /\ [][Next]_vars

\* A slot's steps, the backoff and lock timers and the cron go on; the events of
\* the environment need not happen.  A rebuild polls every five seconds, so the
\* ticks that come round every half hour cannot hide every idle moment from it.
FairSpec ==
    /\ Spec
    /\ \A w \in Workers : WF_vars(WorkerNext(w)) /\ SF_vars(IdleWait(w))
    /\ WF_vars(Promote) /\ WF_vars(Requeue) /\ WF_vars(Tick)
    /\ \A e \in Emails : WF_vars(DeleteRow(e))

-----------------------------------------------------------------------------
Good == Emails \ (Unbuildable \cup Refused)

\* is_indexed is set only once the engine confirmed the write: a row that reads
\* as indexed has its document, unless the engine lost it or a deletion
\* withdrew it.
IndexedMeansSearchable == isIndexed \subseteq docs \cup gone

\* Trouble of the engine never counts against a message: index_attempts of one
\* that can be built and is not refused is no more than the times its own file
\* or rows could not be read, whatever chunk it travels in and however often
\* its job fails.
OutageNotCounted == \A e \in Good \cap rows : attempts[e] <= unread[e]

\* A rebuild that waited for the jobs in flight reaches every row there was
\* when it began: once its flag is reset, a row reads as indexed again
\* only after its document has been written anew.
RebuildReachesAll == hurried \/ owed \cap isIndexed = {}

\* A document is only ever written for a row that exists (IndexMaintenanceService
\* says so of the documents it removes).  Not so while an email is deleted under
\* a job that has built its document: no run checks it.
WrittenForARow == [][docs' \subseteq docs \cup rows]_vars

\* A message that can be indexed is, in the end, or it is deleted: however its
\* jobs fail or get lost, and whatever undeliverable mail precedes it in the scan,
\* unless it could not be read as often as the scan gives a message a try.
EventuallyIndexed ==
    \A e \in Good : e \in rows ~> e \in isIndexed \cup deleted \/ unread[e] >= MaxAttempts

\* A message that cannot be indexed drops out of the reconcile scan.
PoisonDropsOut ==
    \A e \in Emails \ Good : e \in rows ~> attempts[e] >= MaxAttempts \/ e \in deleted
=============================================================================
