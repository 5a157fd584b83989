----------------------------- MODULE SyncCycle -----------------------------
(***************************************************************************)
(* One sync cycle of one ingestion source, from the master job that claims *)
(* the source to the finalizer that releases it, with the scheduler's      *)
(* stale-session sweep running beside it.                                  *)
(*                                                                         *)
(* The actors are BullMQ jobs of the "ingestion" queue: the two masters    *)
(* (continuous-sync, initial-import), one process-mailbox job per mailbox, *)
(* the sync-cycle-finished finalizers and the scheduler's tick.  They      *)
(* share the source's row (status, lastSyncStartedAt) and the              *)
(* sync_sessions table.  One action is one SQL statement or one queue      *)
(* command: every await between two of them is a point where another actor *)
(* may run.  Everything is keyed by source id, so one source is modelled.  *)
(***************************************************************************)
EXTENDS Naturals, FiniteSets

CONSTANTS
    Mailboxes,      \* mailboxes the provider may list
    SessionIds,     \* sync_sessions ids in use at one time (ids are recycled)
    FileBased,      \* TRUE for pst/eml/mbox sources, which end as "imported"
    MaxAttempts,    \* BullMQ attempts of a master job (5 in jobs/queues.ts)
    Budget,         \* how many faults and operator commands a behaviour holds
    Env             \* which kinds of fault and operator command may happen

EnvKinds ==
    { "pause", "resume", "import", "force",             \* operator commands
      "crash", "crashMidRelease",                       \* the worker process dies
      "claimFail", "listFail", "enqueueFail", "catchFail", \* a master's call throws
      "claimLost",              \* so does an import's claim, without committing
      "mergeFail", "recordFail", "dispatchFail",        \* a report's call throws
      "finalizeFail", "sweepFail",                      \* a finalizer's, a sweep's
      "starve", "slowList",     \* waiting in the queue, listing mailboxes may
                                \* outlast the sweep's 30 min threshold
      "slowFinalizer" }         \* a finalizer may outlast the minute to a tick

ASSUME ConstantsAssumption ==
    /\ IsFiniteSet(Mailboxes)
    /\ "sweep" \notin Mailboxes
    /\ FileBased \in BOOLEAN
    /\ MaxAttempts \in Nat \ {0}
    /\ Budget \in Nat
    /\ Env \subseteq EnvKinds

VARIABLES
    status,     \* ingestion_sources.status
    startedOld, \* is lastSyncStartedAt older than the threshold?
    sess,       \* the sync_sessions rows
    roster,     \* the mailboxes a session was created for (totalMailboxes counts them)
    mbox,       \* the process-mailbox jobs of each session
    okBy,       \* mailboxes whose result was counted as completed (history)
    fin,        \* the sync-cycle-finished jobs of each session
    master,     \* the continuous-sync and initial-import jobs
    tick,       \* the schedule-continuous-sync job
    force,      \* an operator's force-sync request in progress
    budget      \* faults and operator commands left

vars == << status, startedOld, sess, roster, mbox, okBy, fin, master, tick,
           force, budget >>

Status == { "auth_success", "active", "paused", "error", "syncing",
            "importing", "imported" }
MidCycle == { "syncing", "importing" }
Kinds == { "sync", "import" }

\* A finalizer is added without a job id by the mailbox job that finds itself
\* last, and with the session's job id by the sweep.
Dispatchers == Mailboxes \cup { "sweep" }

MailboxPc == { "none", "waiting", "running", "merge", "mergeLast", "dispatch",
               "report", "redispatch", "stalled" }
FinPc == { "none", "waiting", "write", "delete", "catch", "catchDelete", "stalled" }
MasterPc == { "none", "waiting", "enumerate", "enqueue", "catch", "stalled" }
TickPc == { "idle", "sweep", "delete", "probe", "free", "dispatch" }

SessionRow == [ row : BOOLEAN, total : Nat, completed : Nat, failed : Nat, old : BOOLEAN ]
NoRow == [ row |-> FALSE, total |-> 0, completed |-> 0, failed |-> 0, old |-> FALSE ]

TypeOK ==
    /\ status \in Status
    /\ startedOld \in BOOLEAN
    /\ sess \in [SessionIds -> SessionRow]
    /\ roster \in [SessionIds -> SUBSET Mailboxes]
    /\ mbox \in [SessionIds -> [Mailboxes -> MailboxPc]]
    /\ okBy \in [SessionIds -> SUBSET Mailboxes]
    /\ fin \in [SessionIds -> [Dispatchers -> [pc : FinPc, to : Status]]]
    /\ master \in [Kinds -> [ pc : MasterPc, att : Nat,
                              todo : [SessionIds -> SUBSET Mailboxes] ]]
    /\ tick \in [ pc : TickPc, redo : SUBSET SessionIds, stuck : SUBSET SessionIds,
                 doomed : SUBSET SessionIds ]
    /\ force \in { "idle", "reset", "add" }
    /\ budget \in 0 .. Budget

-----------------------------------------------------------------------------
(* Helpers                                                                 *)

NoTodo == [s \in SessionIds |-> {}]
NoJob == [pc |-> "none", att |-> 0, todo |-> NoTodo]
QueuedJob(attempt) == [pc |-> "waiting", att |-> attempt, todo |-> NoTodo]
NoFin == [pc |-> "none", to |-> "error"]
QueuedFin == [pc |-> "waiting", to |-> "error"]
IdleTick == [pc |-> "idle", redo |-> {}, stuck |-> {}, doomed |-> {}]

\* A fault or operator command of this kind happens now.
Spend(kind) == kind \in Env /\ budget > 0 /\ budget' = budget - 1

\* Fault: no heartbeat while the mailbox is being archived.
MailboxLive_Fault(s, m) == mbox[s][m] \in { "merge", "mergeLast", "dispatch", "redispatch" }

MailboxLive(s, m) == mbox[s][m] \in { "running", "merge", "mergeLast", "dispatch",
                                      "report", "redispatch" }
FinActive(s, f) == fin[s][f].pc \in { "write", "delete", "catch", "catchDelete" }
MasterActive(k) == master[k].pc \in { "enumerate", "enqueue", "catch" }

\* isJobLive: a record under the master's fixed job id is queued or active.
\* A finished record does not block: a continuous-sync one is removed at once,
\* an initial-import one is cleared by claimJobId.
IsJobLive(k) == master[k].pc # "none"

\* queue.add under a fixed job id: dropped while a record survives.
AddMaster(k) ==
    master' = IF IsJobLive(k) THEN master ELSE [master EXCEPT ![k] = QueuedJob(1)]

\* A throw out of a master's processor: BullMQ retries until attempts run out.
Retried(k) == IF master[k].att < MaxAttempts THEN QueuedJob(master[k].att + 1) ELSE NoJob

\* (Faulty variants, named *_Fault, are what the mutation runs put in place of
\* the definition that follows them.)

\* Fault: off by one, the last report is not waited for.
AllReported_Fault(row) == row.completed + row.failed + 1 >= row.total

AllReported(row) == row.completed + row.failed >= row.total

\* No row and no job refers to s any more, so a new session may be called s.
Free(s) ==
    /\ ~ sess[s].row
    /\ \A m \in Mailboxes : mbox[s][m] = "none"
    /\ \A f \in Dispatchers : fin[s][f].pc = "none"
    /\ \A k \in Kinds : master[k].todo[s] = {}
    /\ s \notin tick.redo \cup tick.stuck \cup tick.doomed

\* DELETE FROM sync_sessions WHERE id = s; the two history variables are
\* emptied with the row they describe.
DeleteSession(s) ==
    /\ sess' = [sess EXCEPT ![s] = NoRow]
    /\ roster' = [roster EXCEPT ![s] = {}]
    /\ okBy' = [okBy EXCEPT ![s] = {}]

-----------------------------------------------------------------------------
(* Either the source has just passed its connection test, and               *)
(* IngestionService.update set auth_success and queued the initial import,  *)
(* or it rests between cycles, paused by its operator.                      *)
Init ==
    /\ status \in { "auth_success", "paused" }
    /\ startedOld = FALSE
    /\ sess = [s \in SessionIds |-> NoRow]
    /\ roster = [s \in SessionIds |-> {}]
    /\ mbox = [s \in SessionIds |-> [m \in Mailboxes |-> "none"]]
    /\ okBy = [s \in SessionIds |-> {}]
    /\ fin = [s \in SessionIds |-> [f \in Dispatchers |-> NoFin]]
    /\ master = [k \in Kinds |-> IF k = "import" /\ status = "auth_success"
                                 THEN QueuedJob(1) ELSE NoJob]
    /\ tick = IdleTick
    /\ force = "idle"
    /\ budget = Budget

-----------------------------------------------------------------------------
(* Master jobs: continuous-sync (k = "sync"), initial-import (k = "import") *)

\* Fault: the claim does not ask whether a cycle holds the source.
Claimable_Fault(k) == IF k = "sync" THEN status # "paused" ELSE TRUE

Claimable(k) == IF k = "sync" THEN status \in { "active", "error" }
                              ELSE status \notin MidCycle

ClaimedStatus(k) == IF k = "sync" THEN "syncing" ELSE "importing"
FinishedStatus == IF FileBased THEN "imported" ELSE "active"
EmptyStatus(k) == IF k = "sync" THEN "active" ELSE FinishedStatus

\* claimForSync, claimForImport: one conditional UPDATE.  A master that does
\* not get the source completes without touching anything.
MasterClaim(k) ==
    /\ master[k].pc = "waiting"
    /\ IF Claimable(k)
       THEN /\ status' = ClaimedStatus(k)
            /\ startedOld' = FALSE
            /\ master' = [master EXCEPT ![k].pc = "enumerate"]
       ELSE /\ master' = [master EXCEPT ![k] = NoJob]
            /\ UNCHANGED << status, startedOld >>
    /\ UNCHANGED << sess, roster, mbox, okBy, fin, tick, force, budget >>

\* The claim commits and the call throws after it (a lost reply, a failed
\* decryption).  continuous-sync claims outside its try, so nothing undoes
\* the status; initial-import claims inside it.
MasterClaimFail(k) ==
    /\ master[k].pc = "waiting"
    /\ Claimable(k)
    /\ Spend("claimFail")
    /\ status' = ClaimedStatus(k)
    /\ startedOld' = FALSE
    /\ master' = IF k = "sync" THEN [master EXCEPT ![k] = Retried(k)]
                               ELSE [master EXCEPT ![k].pc = "catch"]
    /\ UNCHANGED << sess, roster, mbox, okBy, fin, tick, force >>

\* The claim throws and has not committed, whoever holds the source by then.
\* A sync is tried again; an import goes on to its catch block, which fails a
\* source that it never claimed.
MasterClaimLost(k) ==
    /\ master[k].pc = "waiting"
    /\ IF k = "sync"
       THEN Spend("claimFail") /\ master' = [master EXCEPT ![k] = Retried(k)]
       ELSE Spend("claimLost") /\ master' = [master EXCEPT ![k].pc = "catch"]
    /\ UNCHANGED << status, startedOld, sess, roster, mbox, okBy, fin, tick, force >>

\* listAllUsers found no mailbox: the cycle is over.
MasterNoUsers(k) ==
    /\ master[k].pc = "enumerate"
    /\ status' = EmptyStatus(k)
    /\ master' = [master EXCEPT ![k] = NoJob]
    /\ UNCHANGED << startedOld, sess, roster, mbox, okBy, fin, tick, force, budget >>

\* SyncSessionService.create, after every mailbox has been listed.
MasterCreateSession(k, s, users) ==
    /\ master[k].pc = "enumerate"
    /\ users # {}
    /\ Free(s)
    /\ sess' = [sess EXCEPT ![s] = [NoRow EXCEPT !.row = TRUE, !.total = Cardinality(users)]]
    /\ roster' = [roster EXCEPT ![s] = users]
    /\ master' = [master EXCEPT ![k].pc = "enqueue", ![k].todo[s] = users]
    /\ UNCHANGED << status, startedOld, mbox, okBy, fin, tick, force, budget >>

\* One page of enqueueMailboxJobs; the master completes with the last page.
MasterEnqueue(k, s, page) ==
    /\ master[k].pc = "enqueue"
    /\ page # {} /\ page \subseteq master[k].todo[s]
    /\ mbox' = [mbox EXCEPT ![s] = [m \in Mailboxes |->
                    IF m \in page THEN "waiting" ELSE mbox[s][m]]]
    /\ master' = IF page = master[k].todo[s]
                 THEN [master EXCEPT ![k] = NoJob]
                 ELSE [master EXCEPT ![k].todo[s] = @ \ page]
    /\ UNCHANGED << status, startedOld, sess, roster, okBy, fin, tick, force, budget >>

\* The connector, listAllUsers, the session INSERT or an addBulk throws.
MasterThrow(k) ==
    /\ \/ master[k].pc = "enumerate" /\ Spend("listFail")
       \/ master[k].pc = "enqueue" /\ Spend("enqueueFail")
    /\ master' = [master EXCEPT ![k].pc = "catch", ![k].todo = NoTodo]
    /\ UNCHANGED << status, startedOld, sess, roster, mbox, okBy, fin, tick, force >>

\* The catch block: status 'error', then the error is thrown on.
MasterCatch(k) ==
    /\ master[k].pc = "catch"
    /\ status' = "error"
    /\ master' = [master EXCEPT ![k] = Retried(k)]
    /\ UNCHANGED << startedOld, sess, roster, mbox, okBy, fin, tick, force, budget >>

\* The catch block's own UPDATE throws: the status stays mid-cycle.
MasterCatchFail(k) ==
    /\ master[k].pc = "catch"
    /\ Spend("catchFail")
    /\ master' = [master EXCEPT ![k] = Retried(k)]
    /\ UNCHANGED << status, startedOld, sess, roster, mbox, okBy, fin, tick, force >>

-----------------------------------------------------------------------------
(* process-mailbox jobs.  Archiving the mailbox itself is one step here.    *)

MailboxStart(s, m) ==
    /\ mbox[s][m] = "waiting"
    /\ mbox' = [mbox EXCEPT ![s][m] = "running"]
    /\ UNCHANGED << status, startedOld, sess, roster, okBy, fin, master, tick, force, budget >>

\* What recordMailboxResult's UPDATE makes of a session's row.
Counted(row, completed) ==
    [ row |-> TRUE,
      total |-> row.total,
      completed |-> IF completed THEN row.completed + 1 ELSE row.completed,
      failed |-> IF completed THEN row.failed ELSE row.failed + 1,
      old |-> FALSE ]

\* recordMailboxResult's counter UPDATE ... RETURNING.  It throws when the
\* session is gone; the report in the catch block then throws too and is
\* swallowed, so the job ends uncounted.
Record(s, m, completed, ifLast, otherwise) ==
    /\ \/ /\ sess[s].row
          /\ sess' = [sess EXCEPT ![s] = Counted(sess[s], completed)]
          /\ okBy' = IF completed THEN [okBy EXCEPT ![s] = @ \cup {m}] ELSE okBy
          /\ mbox' = [mbox EXCEPT ![s][m] =
                        IF AllReported(Counted(sess[s], completed)) THEN ifLast ELSE otherwise]
       \/ /\ ~ sess[s].row
          /\ mbox' = [mbox EXCEPT ![s][m] = "none"]
          /\ UNCHANGED << sess, okBy >>
    /\ UNCHANGED << status, startedOld, roster, fin, master, tick, force, budget >>

\* Every message was archived: counted as completed, and the mailbox's sync
\* state is merged next.
MailboxSucceed(s, m) == mbox[s][m] = "running" /\ Record(s, m, TRUE, "mergeLast", "merge")

\* Fault: the finalizer is dispatched without asking for isLast.
MailboxPartial_Fault(s, m) == mbox[s][m] = "running" /\ Record(s, m, FALSE, "dispatch", "dispatch")

\* Some message failed to archive: counted as failed, the sync state dropped.
MailboxPartial(s, m) == mbox[s][m] = "running" /\ Record(s, m, FALSE, "dispatch", "none")

\* Fault: after the skip is counted the error report is sent too.
MailboxSkip_Fault(s, m) == mbox[s][m] = "running" /\ Record(s, m, TRUE, "redispatch", "report")

\* The directory entry has no mailbox: a skip counts as completed.
MailboxSkip(s, m) == mbox[s][m] = "running" /\ Record(s, m, TRUE, "redispatch", "none")

\* Anything else the mailbox job throws, the counter UPDATE included, ends in
\* its catch block, which reports an error outcome.
MailboxThrow(s, m) ==
    /\ mbox[s][m] = "running"
    /\ mbox' = [mbox EXCEPT ![s][m] = "report"]
    /\ UNCHANGED << status, startedOld, sess, roster, okBy, fin, master, tick, force, budget >>

MailboxReport(s, m) == mbox[s][m] = "report" /\ Record(s, m, FALSE, "redispatch", "none")

\* reportMailboxOutcome swallows its own failure: the mailbox stays uncounted.
MailboxReportFail(s, m) ==
    /\ mbox[s][m] = "report"
    /\ Spend("recordFail")
    /\ mbox' = [mbox EXCEPT ![s][m] = "none"]
    /\ UNCHANGED << status, startedOld, sess, roster, okBy, fin, master, tick, force >>

\* The sync-state merge, a second UPDATE after the counter.
MailboxMerge(s, m) ==
    /\ mbox[s][m] \in { "merge", "mergeLast" }
    /\ mbox' = [mbox EXCEPT ![s][m] = IF @ = "mergeLast" THEN "dispatch" ELSE "none"]
    /\ UNCHANGED << status, startedOld, sess, roster, okBy, fin, master, tick, force, budget >>

\* The merge throws: the catch block reports the mailbox a second time.
MailboxMergeFail(s, m) ==
    /\ mbox[s][m] \in { "merge", "mergeLast" }
    /\ Spend("mergeFail")
    /\ mbox' = [mbox EXCEPT ![s][m] = "report"]
    /\ UNCHANGED << status, startedOld, sess, roster, okBy, fin, master, tick, force >>

\* The last mailbox adds sync-cycle-finished, with no job id.
MailboxDispatch(s, m) ==
    /\ mbox[s][m] \in { "dispatch", "redispatch" }
    /\ fin' = [fin EXCEPT ![s][m] = QueuedFin]
    /\ mbox' = [mbox EXCEPT ![s][m] = "none"]
    /\ UNCHANGED << status, startedOld, sess, roster, okBy, master, tick, force, budget >>

\* The add throws: on the success path that is one more error to report, in
\* the catch block it is swallowed.
MailboxDispatchFail(s, m) ==
    /\ mbox[s][m] \in { "dispatch", "redispatch" }
    /\ Spend("dispatchFail")
    /\ mbox' = [mbox EXCEPT ![s][m] = IF @ = "dispatch" THEN "report" ELSE "none"]
    /\ UNCHANGED << status, startedOld, sess, roster, okBy, fin, master, tick, force >>

\* SyncSessionService.heartbeat, on a five-minute timer while the job runs.
MailboxHeartbeat(s, m) ==
    /\ MailboxLive(s, m)
    /\ sess[s].row /\ sess[s].old
    /\ sess' = [sess EXCEPT ![s].old = FALSE]
    /\ UNCHANGED << status, startedOld, roster, mbox, okBy, fin, master, tick, force, budget >>

-----------------------------------------------------------------------------
(* sync-cycle-finished jobs                                                *)

\* Fault: 'error' only when every mailbox failed.
Verdict_Fault(row) ==
    IF status = "paused" THEN "paused"
    ELSE IF row.failed = row.total THEN "error" ELSE FinishedStatus

\* What the cycle ended as, from the session's counters and the source's
\* status as they are read.
Verdict(row) ==
    IF status = "paused" THEN "paused"
    ELSE IF row.failed > 0 THEN "error" ELSE FinishedStatus

\* The session and the source are read; a session that is gone throws.
FinRead(s, f) ==
    /\ fin[s][f].pc = "waiting"
    /\ fin' = [fin EXCEPT ![s][f] = IF sess[s].row
                 THEN [pc |-> "write", to |-> Verdict(sess[s])]
                 ELSE [pc |-> "catch", to |-> "error"]]
    /\ UNCHANGED << status, startedOld, sess, roster, mbox, okBy, master, tick, force, budget >>

FinWrite(s, f) ==
    /\ fin[s][f].pc = "write"
    /\ status' = fin[s][f].to
    /\ fin' = [fin EXCEPT ![s][f] = [pc |-> "delete", to |-> "error"]]
    /\ UNCHANGED << startedOld, sess, roster, mbox, okBy, master, tick, force, budget >>

\* SyncSessionService.finalize.
FinDelete(s, f) ==
    /\ fin[s][f].pc \in { "delete", "catchDelete" }
    /\ DeleteSession(s)
    /\ fin' = [fin EXCEPT ![s][f] = NoFin]
    /\ UNCHANGED << status, startedOld, mbox, master, tick, force, budget >>

\* The catch block writes 'error' over whatever the status is by now.
FinCatch(s, f) ==
    /\ fin[s][f].pc = "catch"
    /\ status' = "error"
    /\ fin' = [fin EXCEPT ![s][f] = [pc |-> "catchDelete", to |-> "error"]]
    /\ UNCHANGED << startedOld, sess, roster, mbox, okBy, master, tick, force, budget >>

\* A statement throws: into the catch block from the try; out of the job, and
\* back to the queue, from the catch block's own UPDATE; swallowed last.
FinFail(s, f) ==
    /\ Spend("finalizeFail")
    /\ \/ /\ fin[s][f].pc \in { "waiting", "write", "delete" }
          /\ fin' = [fin EXCEPT ![s][f] = [pc |-> "catch", to |-> "error"]]
       \/ /\ fin[s][f].pc = "catch"
          /\ fin' = [fin EXCEPT ![s][f] = QueuedFin]
       \/ /\ fin[s][f].pc = "catchDelete"
          /\ fin' = [fin EXCEPT ![s][f] = NoFin]
    /\ UNCHANGED << status, startedOld, sess, roster, mbox, okBy, master, tick, force >>

-----------------------------------------------------------------------------
(* schedule-continuous-sync: cleanStaleSessions, releaseSessionlessSources, *)
(* then the dispatch of a continuous-sync job.                              *)

\* The SELECT of the sessions without recent activity: a snapshot.  Ticks are
\* a minute apart; a finalizer that an earlier tick dispatched and that has not
\* ended by then is the "slowFinalizer" fault.
TickStart ==
    /\ tick.pc = "idle"
    /\ IF \E s \in SessionIds : fin[s]["sweep"].pc # "none"
       THEN Spend("slowFinalizer") ELSE UNCHANGED budget
    /\ LET stale == { s \in SessionIds : sess[s].row /\ sess[s].old }
       IN  tick' = [ pc |-> "sweep",
                     redo |-> { s \in stale : AllReported(sess[s]) },
                     stuck |-> { s \in stale : ~ AllReported(sess[s]) },
                     doomed |-> {} ]
    /\ UNCHANGED << status, startedOld, sess, roster, mbox, okBy, fin, master, force >>

\* Every mailbox reported and nobody finalized: the finalizer is dispatched
\* again, under the session's job id.
TickRedispatch(s) ==
    /\ tick.pc = "sweep" /\ s \in tick.redo
    /\ fin' = IF fin[s]["sweep"].pc = "none"
              THEN [fin EXCEPT ![s]["sweep"] = QueuedFin] ELSE fin
    /\ tick' = [tick EXCEPT !.redo = @ \ {s}]
    /\ UNCHANGED << status, startedOld, sess, roster, mbox, okBy, master, force, budget >>

\* Fault: the source is failed and the session left behind.
TickFailSource_Fault(s) ==
    /\ tick.pc = "sweep" /\ s \in tick.stuck
    /\ status' = "error"
    /\ tick' = [tick EXCEPT !.stuck = @ \ {s}]
    /\ UNCHANGED << startedOld, sess, roster, mbox, okBy, fin, master, force, budget >>

\* A session without activity: the source is failed, whatever its status...
TickFailSource(s) ==
    /\ tick.pc = "sweep" /\ s \in tick.stuck
    /\ status' = "error"
    /\ tick' = [tick EXCEPT !.pc = "delete", !.stuck = @ \ {s}, !.doomed = {s}]
    /\ UNCHANGED << startedOld, sess, roster, mbox, okBy, fin, master, force, budget >>

\* ... and the session's row is deleted.
TickDeleteSession(s) ==
    /\ tick.pc = "delete" /\ s \in tick.doomed
    /\ DeleteSession(s)
    /\ tick' = [tick EXCEPT !.pc = "sweep", !.doomed = {}]
    /\ UNCHANGED << status, startedOld, mbox, fin, master, force, budget >>

\* Fault: only 'syncing' sources are looked for.
TickSelectSessionless_Fault ==
    /\ tick.pc = "sweep" /\ tick.redo = {} /\ tick.stuck = {}
    /\ tick' = [tick EXCEPT !.pc =
                  IF /\ status = "syncing" /\ startedOld
                     /\ \A s \in SessionIds : ~ sess[s].row
                  THEN "probe" ELSE "dispatch"]
    /\ UNCHANGED << status, startedOld, sess, roster, mbox, okBy, fin, master, force, budget >>

\* releaseSessionlessSources: a source mid-cycle since long ago that no
\* session accounts for.
TickSelectSessionless ==
    /\ tick.pc = "sweep" /\ tick.redo = {} /\ tick.stuck = {}
    /\ tick' = [tick EXCEPT !.pc =
                  IF /\ status \in MidCycle /\ startedOld
                     /\ \A s \in SessionIds : ~ sess[s].row
                  THEN "probe" ELSE "dispatch"]
    /\ UNCHANGED << status, startedOld, sess, roster, mbox, okBy, fin, master, force, budget >>

TickProbe ==
    /\ tick.pc = "probe"
    /\ tick' = [tick EXCEPT !.pc =
                  IF \E k \in Kinds : IsJobLive(k) THEN "dispatch" ELSE "free"]
    /\ UNCHANGED << status, startedOld, sess, roster, mbox, okBy, fin, master, force, budget >>

TickRelease ==
    /\ tick.pc = "free"
    /\ status' = "error"
    /\ tick' = [tick EXCEPT !.pc = "dispatch"]
    /\ UNCHANGED << startedOld, sess, roster, mbox, okBy, fin, master, force, budget >>

\* Any statement of the sweep throws: the tick goes on to dispatch.
TickSweepFail ==
    /\ tick.pc \in { "sweep", "delete", "probe", "free" }
    /\ Spend("sweepFail")
    /\ tick' = [IdleTick EXCEPT !.pc = "dispatch"]
    /\ UNCHANGED << status, startedOld, sess, roster, mbox, okBy, fin, master, force >>

\* A schedulable source gets a continuous-sync job.  The SELECT and the add
\* are one step: a job added on a stale SELECT is stopped by the claim.
TickDispatch ==
    /\ tick.pc = "dispatch"
    /\ IF status \in { "active", "error" } THEN AddMaster("sync") ELSE UNCHANGED master
    /\ tick' = IdleTick
    /\ UNCHANGED << status, startedOld, sess, roster, mbox, okBy, fin, force, budget >>

-----------------------------------------------------------------------------
(* Operator commands                                                       *)

\* The pause endpoint: an unconditional UPDATE.
Pause ==
    /\ status # "paused"
    /\ Spend("pause")
    /\ status' = "paused"
    /\ UNCHANGED << startedOld, sess, roster, mbox, okBy, fin, master, tick, force >>

\* The dashboard's toggle on a paused source: PUT status 'active'.
Resume ==
    /\ status = "paused"
    /\ Spend("resume")
    /\ status' = "active"
    /\ UNCHANGED << startedOld, sess, roster, mbox, okBy, fin, master, tick, force >>

\* triggerInitialImport: claimJobId, then the add.
TriggerImport ==
    /\ Spend("import")
    /\ AddMaster("import")
    /\ UNCHANGED << status, startedOld, sess, roster, mbox, okBy, fin, tick, force >>

\* triggerForceSync: the source's jobs are removed.  Removing an active job
\* throws (its lock is held) and is ignored.
ForceRemoveJobs ==
    /\ force = "idle"
    /\ Spend("force")
    /\ master' = [k \in Kinds |-> IF master[k].pc = "waiting" THEN NoJob ELSE master[k]]
    /\ mbox' = [s \in SessionIds |-> [m \in Mailboxes |->
                   IF mbox[s][m] = "waiting" THEN "none" ELSE mbox[s][m]]]
    /\ fin' = [s \in SessionIds |-> [f \in Dispatchers |->
                   IF fin[s][f].pc = "waiting" THEN NoFin ELSE fin[s][f]]]
    /\ force' = "reset"
    /\ UNCHANGED << status, startedOld, sess, roster, okBy, tick >>

ForceResetStatus ==
    /\ force = "reset"
    /\ status' = "active"
    /\ force' = "add"
    /\ UNCHANGED << startedOld, sess, roster, mbox, okBy, fin, master, tick, budget >>

ForceAdd ==
    /\ force = "add"
    /\ AddMaster("sync")
    /\ force' = "idle"
    /\ UNCHANGED << status, startedOld, sess, roster, mbox, okBy, fin, tick, budget >>

-----------------------------------------------------------------------------
(* Time, crashes and the stalled-job check                                 *)

\* Thirty minutes pass since the session's last activity.  A running mailbox
\* job beats every five; a master enqueues its pages, and a finalizer runs
\* its statements, in far less.  A job that waits in the queue for that long,
\* behind other sources' jobs, is the "starve" fault.
SessionAges(s) ==
    /\ sess[s].row /\ ~ sess[s].old
    /\ \A m \in Mailboxes : ~ MailboxLive(s, m)
    /\ \A f \in Dispatchers : ~ FinActive(s, f)
    /\ \A k \in Kinds : master[k].pc = "enqueue" => master[k].todo[s] = {}
    /\ IF \/ \E m \in Mailboxes : mbox[s][m] = "waiting"
          \/ \E f \in Dispatchers : fin[s][f].pc = "waiting"
       THEN Spend("starve") ELSE UNCHANGED budget
    /\ sess' = [sess EXCEPT ![s].old = TRUE]
    /\ UNCHANGED << status, startedOld, roster, mbox, okBy, fin, master, tick, force >>

\* Thirty minutes pass since the claim; only a source mid-cycle is ever asked.
\* A master that is still listing mailboxes by then is the "slowList" fault.
StartAges ==
    /\ status \in MidCycle
    /\ ~ startedOld
    /\ IF \E k \in Kinds : MasterActive(k) THEN Spend("slowList") ELSE UNCHANGED budget
    /\ startedOld' = TRUE
    /\ UNCHANGED << status, sess, roster, mbox, okBy, fin, master, tick, force >>

\* A crash here separates a write that releases the source from the deletion
\* of the session it belongs to.
MidRelease == \/ tick.pc = "delete"
              \/ \E s \in SessionIds, f \in Dispatchers :
                    fin[s][f].pc \in { "delete", "catchDelete" }

\* The worker process dies.  Its active jobs keep their records until their
\* locks expire.
WorkerCrash ==
    /\ IF MidRelease THEN Spend("crashMidRelease") ELSE Spend("crash")
    /\ master' = [k \in Kinds |-> IF MasterActive(k)
                    THEN [NoJob EXCEPT !.pc = "stalled"] ELSE master[k]]
    /\ mbox' = [s \in SessionIds |-> [m \in Mailboxes |->
                   IF MailboxLive(s, m) THEN "stalled" ELSE mbox[s][m]]]
    /\ fin' = [s \in SessionIds |-> [f \in Dispatchers |->
                   IF FinActive(s, f) THEN [NoFin EXCEPT !.pc = "stalled"] ELSE fin[s][f]]]
    /\ tick' = IdleTick
    /\ UNCHANGED << status, startedOld, sess, roster, okBy, force >>

\* maxStalledCount 0: a stalled job is failed, never run again.
FailStalledMaster(k) ==
    /\ master[k].pc = "stalled"
    /\ master' = [master EXCEPT ![k] = NoJob]
    /\ UNCHANGED << status, startedOld, sess, roster, mbox, okBy, fin, tick, force, budget >>

FailStalledMailbox(s, m) ==
    /\ mbox[s][m] = "stalled"
    /\ mbox' = [mbox EXCEPT ![s][m] = "none"]
    /\ UNCHANGED << status, startedOld, sess, roster, okBy, fin, master, tick, force, budget >>

FailStalledFin(s, f) ==
    /\ fin[s][f].pc = "stalled"
    /\ fin' = [fin EXCEPT ![s][f] = NoFin]
    /\ UNCHANGED << status, startedOld, sess, roster, mbox, okBy, master, tick, force, budget >>

-----------------------------------------------------------------------------
MasterNext(k) ==
    \/ MasterClaim(k)
    \/ MasterClaimFail(k)
    \/ MasterClaimLost(k)
    \/ MasterNoUsers(k)
    \/ \E s \in SessionIds, users \in SUBSET Mailboxes : MasterCreateSession(k, s, users)
    \/ \E s \in SessionIds, page \in SUBSET Mailboxes : MasterEnqueue(k, s, page)
    \/ MasterThrow(k)
    \/ MasterCatch(k)
    \/ MasterCatchFail(k)
    \/ FailStalledMaster(k)

MailboxNext(s, m) ==
    \/ MailboxStart(s, m)
    \/ MailboxSucceed(s, m) \/ MailboxPartial(s, m) \/ MailboxSkip(s, m) \/ MailboxThrow(s, m)
    \/ MailboxReport(s, m) \/ MailboxReportFail(s, m)
    \/ MailboxMerge(s, m) \/ MailboxMergeFail(s, m)
    \/ MailboxDispatch(s, m) \/ MailboxDispatchFail(s, m)
    \/ MailboxHeartbeat(s, m)
    \/ FailStalledMailbox(s, m)

FinNext(s, f) ==
    \/ FinRead(s, f) \/ FinWrite(s, f) \/ FinDelete(s, f)
    \/ FinCatch(s, f) \/ FinFail(s, f)
    \/ FailStalledFin(s, f)

TickNext ==
    \/ TickStart
    \/ \E s \in SessionIds : TickRedispatch(s) \/ TickFailSource(s) \/ TickDeleteSession(s)
    \/ TickSelectSessionless \/ TickProbe \/ TickRelease \/ TickSweepFail
    \/ TickDispatch

OperatorNext == Pause \/ Resume \/ TriggerImport \/ ForceRemoveJobs \/ ForceResetStatus \/ ForceAdd

EnvNext == (\E s \in SessionIds : SessionAges(s)) \/ StartAges \/ WorkerCrash

Next ==
    \/ \E k \in Kinds : MasterNext(k)
    \/ \E s \in SessionIds, m \in Mailboxes : MailboxNext(s, m)
    \/ \E s \in SessionIds, f \in Dispatchers : FinNext(s, f)
    \/ TickNext
    \/ OperatorNext
    \/ EnvNext

Spec == Init /\ [][Next]_vars

\* The queue hands every job to a worker, a running job's statements return,
\* the scheduler's repeatable job keeps firing and time passes.  Nothing is
\* assumed of faults and operator commands.
Fairness ==
    /\ \A k \in Kinds :
          /\ WF_vars(MasterClaim(k))
          /\ WF_vars(MasterNoUsers(k) \/ \E s \in SessionIds, users \in SUBSET Mailboxes :
                        MasterCreateSession(k, s, users))
          /\ WF_vars(\E s \in SessionIds, page \in SUBSET Mailboxes : MasterEnqueue(k, s, page))
          /\ WF_vars(MasterCatch(k))
          /\ WF_vars(FailStalledMaster(k))
    /\ \A s \in SessionIds, m \in Mailboxes :
          /\ WF_vars(MailboxStart(s, m))
          /\ WF_vars(MailboxSucceed(s, m) \/ MailboxPartial(s, m) \/ MailboxSkip(s, m)
                     \/ MailboxThrow(s, m))
          /\ WF_vars(MailboxReport(s, m) \/ MailboxMerge(s, m) \/ MailboxDispatch(s, m))
          /\ WF_vars(FailStalledMailbox(s, m))
    /\ \A s \in SessionIds, f \in Dispatchers :
          /\ WF_vars(FinRead(s, f) \/ FinWrite(s, f) \/ FinDelete(s, f) \/ FinCatch(s, f))
          /\ WF_vars(FailStalledFin(s, f))
    /\ WF_vars(TickNext)
    /\ WF_vars(ForceResetStatus \/ ForceAdd)
    /\ \A s \in SessionIds : WF_vars(SessionAges(s))
    /\ WF_vars(StartAges)

FairSpec == Spec /\ Fairness

-----------------------------------------------------------------------------
(* Properties                                                              *)

\* A source is reported 'active' or 'imported' by a finalizer only if every
\* mailbox the session was created for was counted as completed, whatever
\* failed, crashed or was reported twice on the way.
SuccessMeansAllCompleted ==
    \A s \in SessionIds, f \in Dispatchers :
        fin[s][f].pc = "write" /\ fin[s][f].to \in { "active", "imported" }
            => okBy[s] = roster[s]

\* A finalizer, keyed or not, exists only for a session whose counters are full:
\* SyncSessionService counts the reports, and the one that fills them dispatches.
\* (A mailbox that a failing merge makes report twice fills them one too early.)
FinalizersComeLast ==
    \A s \in SessionIds, f \in Dispatchers :
        fin[s][f].pc # "none" /\ sess[s].row => AllReported(sess[s])

\* No session is told of more results than it has mailboxes ("retries that
\* would double-count against the session counter", process-mailbox).
NoDoubleCount ==
    \A s \in SessionIds : sess[s].completed + sess[s].failed <= sess[s].total

\* A session whose mailboxes are being archived or still have to be.
Working(s) == \E m \in Mailboxes : mbox[s][m] \in { "waiting", "running" }

\* "One cycle per source": two sessions of the source never have mailboxes to
\* archive at the same time, so two jobs never race the dedup check of one
\* mailbox (claimForSync, claimForImport, continuousSyncJobId).  Broken by a force
\* sync (ForceEnv) and by "claimLost", whose catch block fails the source under
\* the cycle that holds it, so that the scheduler starts another.
OneCycle == \A s, t \in SessionIds : Working(s) /\ Working(t) => s = t

\* A mailbox job that is running still has its session to report to: neither
\* the sweep nor an early finalizer deletes it under the job.
ReportsLand ==
    \A s \in SessionIds, m \in Mailboxes : mbox[s][m] = "running" => sess[s].row

\* Every mailbox is counted, and none twice.
CountedOnce == NoDoubleCount /\ ReportsLand

\* The sweep condemns only sessions whose remaining work is lost: none of the
\* mailbox jobs is running or still to run.
SweptIsDead == \A s \in tick.stuck \cup tick.doomed : ~ Working(s)

\* "Each process-mailbox job has already atomically recorded its outcome and
\* incrementally merged its SyncState" when the finalizer runs
\* (sync-cycle-finished): no merge is pending when the source is released.
MergedBeforeRelease ==
    \A s \in SessionIds, f \in Dispatchers :
        fin[s][f].pc \in { "write", "delete" }
            => \A m \in Mailboxes : mbox[s][m] \notin { "merge", "mergeLast" }

\* "Don't override paused status" (sync-cycle-finished): a finalizer leaves a
\* paused source paused.
PauseKept ==
    [][status = "paused" /\ status' # "paused"
         => \A s \in SessionIds, f \in Dispatchers :
              fin[s][f].pc \in { "write", "catch" } => fin'[s][f].pc = fin[s][f].pc]_vars

\* Whatever dies, a source does not stay in 'syncing' or 'importing': the cycle
\* ends or the sweep puts it back in the scheduler's reach.
SourceReleased == status \in MidCycle ~> status \notin MidCycle

\* Every session row is deleted in the end, by a finalizer or by the sweep,
\* so no sweep re-dispatches one forever.
SessionsEnd == \A s \in SessionIds : sess[s].row ~> ~ sess[s].row

\* Nothing of a cycle outlives it: neither the source's status nor its session.
CyclesEnd == SourceReleased /\ SessionsEnd
=============================================================================
