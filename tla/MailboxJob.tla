----------------------------- MODULE MailboxJob -----------------------------
(***************************************************************************)
(* One process-mailbox job: the loop that pulls messages from a connector, *)
(* the bounded set of tasks that archive them side by side, the per-key    *)
(* chains that keep copies of one message apart, the batches handed to the *)
(* indexing queue, and the report at the end.  Runs of the job for the     *)
(* same mailbox follow one another (SyncCycle!OneCycle) and share its      *)
(* archived_emails rows, which have no unique index.                       *)
(*                                                                         *)
(* The job is one JavaScript thread, so an action is what runs between two *)
(* awaits.  A message is archived in two statements, the dedup SELECT and  *)
(* the INSERT, with awaits before, between and after.                      *)
(***************************************************************************)
EXTENDS Naturals, FiniteSets

CONSTANTS
    Emails,         \* the messages of the mailbox
    Keys,           \* dedup keys
    KeyOf,          \* dedupKeyFor: the key each message is deduplicated under
    Drafts,         \* messages that are unsent drafts, when those are not archived
    NoEmail,
    Concurrency,    \* config.ingestion.emailConcurrency
    BatchSize,      \* config.meili.indexingBatchSize
    MaxRuns         \* bound: runs of the job for this mailbox

ASSUME ConstantsAssumption ==
    /\ IsFiniteSet(Emails)
    /\ NoEmail \notin Emails
    /\ KeyOf \in [Emails -> Keys]
    /\ Drafts \subseteq Emails
    /\ Concurrency \in Nat \ {0}
    /\ BatchSize \in Nat \ {0}
    /\ MaxRuns \in Nat \ {0}

VARIABLES
    pc,         \* where the main loop is
    offered,    \* messages the connector has yielded, skipped or given up on
    task,       \* the archiving task of each message
    prior,      \* the task each task waits for
    keyed,      \* the latest task in flight under each key
    inFlight,   \* tasks the loop still tracks
    slotWaiter, \* does the loop wait for a slot?
    rows,       \* the mailbox's archived_emails rows
    failed,     \* messages counted as failed this run
    batch,      \* archived messages buffered for indexing
    flushing,   \* the batch an enqueue is under way for
    queued,     \* messages the indexing queue has been handed
    thrown,     \* what unwound to the mailbox-level catch
    outcome,    \* the run's outcome
    run,        \* how many runs have begun
    fresh,      \* rows this run inserted (history)
    ahead       \* earlier tasks of the same key still in flight (history)

vars == << pc, offered, task, prior, keyed, inFlight, slotWaiter, rows, failed, batch,
           flushing, queued, thrown, outcome, run, fresh, ahead >>

LoopPc == { "pull", "slot", "flush", "drain", "finalFlush", "record",
            "settle", "lastFlush", "report", "done" }
TaskPc == { "none", "waiting", "gate", "insert", "attach", "landed", "settled" }
Outcomes == { "success", "partial", "skip", "error", "unreported", "crashed" }

TypeOK ==
    /\ pc \in LoopPc
    /\ offered \subseteq Emails
    /\ task \in [Emails -> TaskPc]
    /\ prior \in [Emails -> Emails \cup {NoEmail}]
    /\ keyed \in [Keys -> Emails \cup {NoEmail}]
    /\ inFlight \subseteq Emails
    /\ slotWaiter \in BOOLEAN
    /\ rows \subseteq Emails
    /\ failed \subseteq Emails
    /\ batch \subseteq Emails
    /\ flushing \subseteq Emails
    /\ queued \subseteq Emails
    /\ thrown \in { "none", "error", "unavailable" }
    /\ outcome \in Outcomes \cup { "none" }
    /\ run \in 1 .. MaxRuns
    /\ fresh \subseteq Emails
    /\ ahead \in [Emails -> SUBSET Emails]

loopVars == << pc, slotWaiter, flushing, thrown, outcome, run >>
taskVars == << task, prior, keyed, inFlight, ahead >>

-----------------------------------------------------------------------------
(* A run starts with the rows earlier runs left.                            *)
Init ==
    /\ pc = "pull"
    /\ offered = {}
    /\ task = [e \in Emails |-> "none"]
    /\ prior = [e \in Emails |-> NoEmail]
    /\ keyed = [k \in Keys |-> NoEmail]
    /\ inFlight = {}
    /\ slotWaiter = FALSE
    /\ rows = {}
    /\ failed = {}
    /\ batch = {}
    /\ flushing = {}
    /\ queued = {}
    /\ thrown = "none"
    /\ outcome = "none"
    /\ run = 1
    /\ fresh = {}
    /\ ahead = [e \in Emails |-> {}]

-----------------------------------------------------------------------------
(* The main loop                                                           *)

\* (Faulty variants, named *_Fault, are what the mutation runs put in place of
\* the definition that follows them.)

\* The end of the loop body: a full batch is enqueued before the next pull.
CheckBatch ==
    IF Cardinality(batch) >= BatchSize
    THEN pc' = "flush" /\ flushing' = batch /\ batch' = {}
    ELSE pc' = "pull" /\ UNCHANGED << flushing, batch >>

\* The connector's pre-check finds the message archived, and skips it.
SkipKnown(e) ==
    /\ pc = "pull"
    /\ e \in Emails \ offered
    /\ \E r \in rows : KeyOf[r] = KeyOf[e]
    /\ offered' = offered \cup {e}
    /\ UNCHANGED << loopVars, taskVars, rows, failed, batch, queued, fresh >>

\* An unsent draft is dropped before any work; the batch is not looked at.
DropDraft(e) ==
    /\ pc = "pull"
    /\ e \in Drafts \ offered
    /\ offered' = offered \cup {e}
    /\ UNCHANGED << loopVars, taskVars, rows, failed, batch, queued, fresh >>

\* The connector could not fetch the message; getFetchFailures tells later.
GiveUp(e) ==
    /\ pc = "pull"
    /\ e \in Emails \ offered
    /\ offered' = offered \cup {e}
    /\ failed' = failed \cup {e}
    /\ UNCHANGED << loopVars, taskVars, rows, batch, queued, fresh >>

\* A message is yielded: its task is chained behind the latest one under its
\* key, and the loop waits for a slot if none is left.  (The message may have
\* been archived since the pre-check.)
Yield(e) ==
    /\ pc = "pull"
    /\ e \in Emails \ (offered \cup Drafts)
    /\ offered' = offered \cup {e}
    /\ task' = [task EXCEPT ![e] = "waiting"]
    /\ prior' = [prior EXCEPT ![e] = keyed[KeyOf[e]]]
    /\ keyed' = [keyed EXCEPT ![KeyOf[e]] = e]
    /\ inFlight' = inFlight \cup {e}
    /\ ahead' = [ahead EXCEPT ![e] = { d \in inFlight : KeyOf[d] = KeyOf[e] }]
    /\ IF Cardinality(inFlight') >= Concurrency
       THEN /\ pc' = "slot" /\ slotWaiter' = TRUE
            /\ UNCHANGED << flushing, batch >>
       ELSE CheckBatch /\ UNCHANGED slotWaiter
    /\ UNCHANGED << rows, failed, queued, thrown, outcome, run, fresh >>

\* Fault: the loop does not wait.
SlotResume_Fault ==
    /\ pc = "slot"
    /\ CheckBatch
    /\ UNCHANGED << offered, taskVars, slotWaiter, rows, failed, queued, thrown, outcome,
                    run, fresh >>

\* A task has released the slot the loop waited for.
SlotResume ==
    /\ pc = "slot" /\ ~ slotWaiter
    /\ CheckBatch
    /\ UNCHANGED << offered, taskVars, slotWaiter, rows, failed, queued, thrown, outcome,
                    run, fresh >>

\* flushBatch succeeds, in the loop or after it.
FlushOk ==
    /\ pc \in { "flush", "finalFlush", "lastFlush" }
    /\ queued' = queued \cup flushing
    /\ flushing' = {}
    /\ pc' = CASE pc = "flush" -> "pull" [] pc = "finalFlush" -> "record"
               [] pc = "lastFlush" -> "report"
    /\ UNCHANGED << offered, taskVars, slotWaiter, rows, failed, batch, thrown, outcome, run,
                    fresh >>

\* Fault: the ids of the refused batch are forgotten.
FlushFail_Fault ==
    /\ pc \in { "flush", "finalFlush", "lastFlush" }
    /\ flushing' = {}
    /\ IF pc = "lastFlush" THEN pc' = "report" /\ UNCHANGED thrown
                           ELSE pc' = "settle" /\ thrown' = "error"
    /\ UNCHANGED << offered, taskVars, slotWaiter, rows, failed, batch, queued, outcome, run,
                    fresh >>

\* flushBatch fails: the ids are put back, and the error unwinds to the catch
\* block; the catch block's own flush failure is only logged.
FlushFail ==
    /\ pc \in { "flush", "finalFlush", "lastFlush" }
    /\ batch' = flushing \cup batch
    /\ flushing' = {}
    /\ IF pc = "lastFlush" THEN pc' = "report" /\ UNCHANGED thrown
                           ELSE pc' = "settle" /\ thrown' = "error"
    /\ UNCHANGED << offered, taskVars, slotWaiter, rows, failed, queued, outcome, run, fresh >>

\* The connector throws: "unavailable" is a directory entry without a mailbox.
ConnectorThrows(what) ==
    /\ pc = "pull"
    /\ pc' = "settle"
    /\ thrown' = what
    /\ UNCHANGED << offered, taskVars, slotWaiter, rows, failed, batch, flushing, queued,
                    outcome, run, fresh >>

ListingEnds ==
    /\ pc = "pull"
    /\ pc' = "drain"
    /\ UNCHANGED << offered, taskVars, slotWaiter, rows, failed, batch, flushing, queued,
                    thrown, outcome, run, fresh >>

\* Fault: the tasks in flight are not waited for.
Drain_Fault ==
    /\ pc \in { "drain", "settle" }
    /\ IF batch = {}
       THEN /\ pc' = IF pc = "drain" THEN "record" ELSE "report"
            /\ UNCHANGED << flushing, batch >>
       ELSE /\ pc' = IF pc = "drain" THEN "finalFlush" ELSE "lastFlush"
            /\ flushing' = batch /\ batch' = {}
    /\ UNCHANGED << offered, taskVars, slotWaiter, rows, failed, queued, thrown, outcome, run,
                    fresh >>

\* Promise.all(inFlight), and allSettled in the catch block; then flushBatch,
\* which returns at once when nothing is buffered.
Drain ==
    /\ pc \in { "drain", "settle" }
    /\ inFlight = {}
    /\ IF batch = {}
       THEN /\ pc' = IF pc = "drain" THEN "record" ELSE "report"
            /\ UNCHANGED << flushing, batch >>
       ELSE /\ pc' = IF pc = "drain" THEN "finalFlush" ELSE "lastFlush"
            /\ flushing' = batch /\ batch' = {}
    /\ UNCHANGED << offered, taskVars, slotWaiter, rows, failed, queued, thrown, outcome, run,
                    fresh >>

\* Fault: failed messages are treated as skipped ones.
Record_Fault ==
    /\ pc = "record"
    /\ pc' = "done"
    /\ outcome' = "success"
    /\ UNCHANGED << offered, taskVars, slotWaiter, rows, failed, batch, flushing, queued,
                    thrown, run, fresh >>

\* recordMailboxResult on the success path.
Record ==
    /\ pc = "record"
    /\ pc' = "done"
    /\ outcome' = IF failed # {} THEN "partial" ELSE "success"
    /\ UNCHANGED << offered, taskVars, slotWaiter, rows, failed, batch, flushing, queued,
                    thrown, run, fresh >>

\* It throws, or the connector's updated sync state cannot be had.
RecordFail ==
    /\ pc = "record"
    /\ pc' = "settle"
    /\ thrown' = "error"
    /\ UNCHANGED << offered, taskVars, slotWaiter, rows, failed, batch, flushing, queued,
                    outcome, run, fresh >>

\* reportMailboxOutcome, which swallows its own failure.
Report ==
    /\ pc = "report"
    /\ pc' = "done"
    /\ outcome' \in { IF thrown = "unavailable" THEN "skip" ELSE "error", "unreported" }
    /\ UNCHANGED << offered, taskVars, slotWaiter, rows, failed, batch, flushing, queued,
                    thrown, run, fresh >>

-----------------------------------------------------------------------------
(* The tasks                                                               *)

\* Fault: no wait for the earlier copy.
TaskStart_Fault(e) ==
    /\ task[e] = "waiting"
    /\ task' = [task EXCEPT ![e] = "gate"]
    /\ UNCHANGED << loopVars, offered, prior, keyed, inFlight, ahead, rows, failed, batch,
                    queued, fresh >>

\* `await prior`, then processEmail begins.
TaskStart(e) ==
    /\ task[e] = "waiting"
    /\ prior[e] # NoEmail => task[prior[e]] = "settled"
    /\ task' = [task EXCEPT ![e] = "gate"]
    /\ UNCHANGED << loopVars, offered, prior, keyed, inFlight, ahead, rows, failed, batch,
                    queued, fresh >>

\* Gate 1: a row of this mailbox under the key makes the message a duplicate.
TaskGate(e) ==
    /\ task[e] = "gate"
    /\ task' = [task EXCEPT ![e] =
                  IF \E r \in rows : KeyOf[r] = KeyOf[e] THEN "landed" ELSE "insert"]
    /\ UNCHANGED << loopVars, offered, prior, keyed, inFlight, ahead, rows, failed, batch,
                    queued, fresh >>

TaskInsert(e) ==
    /\ task[e] = "insert"
    /\ task' = [task EXCEPT ![e] = "attach"]
    /\ rows' = rows \cup {e}
    /\ fresh' = fresh \cup {e}
    /\ UNCHANGED << loopVars, offered, prior, keyed, inFlight, ahead, failed, batch, queued >>

\* The attachments are stored; the archived message is buffered for indexing.
TaskArchived(e) ==
    /\ task[e] = "attach"
    /\ task' = [task EXCEPT ![e] = "landed"]
    /\ batch' = batch \cup {e}
    /\ UNCHANGED << loopVars, offered, prior, keyed, inFlight, ahead, rows, failed, queued,
                    fresh >>

\* processEmail returns an error, before its row is inserted or after.
TaskFails(e) ==
    /\ task[e] \in { "gate", "insert", "attach" }
    /\ task' = [task EXCEPT ![e] = "landed"]
    /\ failed' = failed \cup {e}
    /\ UNCHANGED << loopVars, offered, prior, keyed, inFlight, ahead, rows, batch, queued,
                    fresh >>

\* Fault: the chain is cut even if a newer message has joined it.
TaskSettles_Fault(e) ==
    /\ task[e] = "landed"
    /\ task' = [task EXCEPT ![e] = "settled"]
    /\ inFlight' = inFlight \ {e}
    /\ keyed' = [keyed EXCEPT ![KeyOf[e]] = NoEmail]
    /\ slotWaiter' = FALSE
    /\ ahead' = [d \in Emails |-> ahead[d] \ {e}]
    /\ UNCHANGED << pc, offered, prior, rows, failed, batch, flushing, queued, thrown,
                    outcome, run, fresh >>

\* The task's finally: untracked, unchained if it is still the latest under
\* its key, and the loop's waiter released.
TaskSettles(e) ==
    /\ task[e] = "landed"
    /\ task' = [task EXCEPT ![e] = "settled"]
    /\ inFlight' = inFlight \ {e}
    /\ keyed' = IF keyed[KeyOf[e]] = e THEN [keyed EXCEPT ![KeyOf[e]] = NoEmail] ELSE keyed
    /\ slotWaiter' = FALSE
    /\ ahead' = [d \in Emails |-> ahead[d] \ {e}]
    /\ UNCHANGED << pc, offered, prior, rows, failed, batch, flushing, queued, thrown,
                    outcome, run, fresh >>

-----------------------------------------------------------------------------
\* The worker dies: what was buffered is gone, an enqueue under way may have
\* reached the queue.
Crash ==
    /\ pc # "done"
    /\ pc' = "done"
    /\ outcome' = "crashed"
    /\ queued' \in { queued, queued \cup flushing }
    /\ task' = [e \in Emails |-> "none"]
    /\ inFlight' = {}
    /\ keyed' = [k \in Keys |-> NoEmail]
    /\ prior' = [e \in Emails |-> NoEmail]
    /\ ahead' = [e \in Emails |-> {}]
    /\ batch' = {} /\ flushing' = {}
    /\ slotWaiter' = FALSE
    /\ UNCHANGED << offered, rows, failed, thrown, run, fresh >>

\* The next cycle's job for this mailbox.  After a success the provider lists
\* what is new, after anything else all of it again.
NextRun ==
    /\ pc = "done"
    /\ run < MaxRuns
    /\ run' = run + 1
    /\ pc' = "pull"
    /\ offered' = {} /\ failed' = {} /\ batch' = {} /\ fresh' = {}
    /\ task' = [e \in Emails |-> "none"]
    /\ prior' = [e \in Emails |-> NoEmail]
    /\ thrown' = "none"
    /\ outcome' = "none"
    /\ UNCHANGED << keyed, inFlight, slotWaiter, rows, flushing, queued, ahead >>

LoopNext ==
    \/ \E e \in Emails : SkipKnown(e) \/ DropDraft(e) \/ GiveUp(e) \/ Yield(e)
    \/ \E what \in { "error", "unavailable" } : ConnectorThrows(what)
    \/ ListingEnds
    \/ SlotResume
    \/ FlushOk \/ FlushFail
    \/ Drain
    \/ Record \/ RecordFail
    \/ Report

TaskNext(e) ==
    \/ TaskStart(e) \/ TaskGate(e) \/ TaskInsert(e) \/ TaskArchived(e) \/ TaskFails(e)
    \/ TaskSettles(e)

Next == LoopNext \/ (\E e \in Emails : TaskNext(e)) \/ Crash \/ NextRun

Spec == Init /\ [][Next]_vars

\* The connector goes on yielding or ends, statements return.
FairSpec == Spec /\ WF_vars(LoopNext) /\ \A e \in Emails : WF_vars(TaskNext(e))

-----------------------------------------------------------------------------
(* Properties                                                              *)

\* Two messages under one dedup key are never examined at the same time: the
\* dedup gate is a check-then-insert, and the keyed chain is its only lock.
Examining(e) == task[e] \in { "gate", "insert", "attach" }
KeyExaminedAlone ==
    \A d, e \in Emails : Examining(d) /\ Examining(e) /\ KeyOf[d] = KeyOf[e] => d = e

\* However many copies of a message the mailbox holds, and whatever fails or
\* crashes on the way, the mailbox has one row under its key.
KeyArchivedOnce ==
    \A d, e \in rows : KeyOf[d] = KeyOf[e] => d = e

\* No more than emailConcurrency messages are in memory.
SlotsBounded == Cardinality(inFlight) <= Concurrency

\* "The batch can overshoot BATCH_SIZE by up to emailConcurrency - 1 while
\* those tasks land" (process-mailbox), and by no more.
BatchBounded ==
    pc \in { "pull", "slot" } => Cardinality(batch) <= BatchSize + Concurrency - 1

\* When the job reports, no task is left that could still insert a row.
ReportedMeansSettled ==
    pc \in { "record", "finalFlush", "lastFlush", "report", "done" }
        => \A e \in Emails : task[e] \in { "none", "settled" }

\* A job that ran to its end handed every row it inserted to the indexing
\* queue, except a message it counted as failed and, when the enqueue failed in
\* the catch block too, the ones it logs as still buffered.
ArchivedIsQueued ==
    outcome \notin { "none", "crashed" } =>
        /\ fresh \subseteq queued \cup failed \cup batch
        /\ outcome \in { "success", "partial" } => batch = {}

\* What the job promises to the sync cycle and the archive, its termination
\* included (no lost wake-up of the loop's slot waiter, no chain of tasks that
\* waits for itself).
Contract == INSTANCE MailboxContract WITH
    offered <- offered, rows <- rows, outcome <- outcome
KeepsContract == Contract!FairSpec
=============================================================================
