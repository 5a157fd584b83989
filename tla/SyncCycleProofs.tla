-------------------------- MODULE SyncCycleProofs --------------------------
(***************************************************************************)
(* Type correctness of SyncCycle, and the soundness of a successful        *)
(* verdict, for every set of mailboxes and every fault and command.        *)
(***************************************************************************)
EXTENDS SyncCycle, FiniteSetTheorems, TLAPS

-----------------------------------------------------------------------------
(* Type correctness                                                        *)

MasterType == [ pc : MasterPc, att : Nat, todo : [SessionIds -> SUBSET Mailboxes] ]
FinType == [ pc : FinPc, to : Status ]

\* The job records the actions write are well formed.
LEMMA JobTypes ==
    ASSUME TypeOK, NEW k \in Kinds
    PROVE  /\ NoJob \in MasterType
           /\ \A n \in Nat : QueuedJob(n) \in MasterType
           /\ Retried(k) \in MasterType
           /\ master \in [Kinds -> MasterType]
           /\ NoFin \in FinType /\ QueuedFin \in FinType
           /\ fin \in [SessionIds -> [Dispatchers -> FinType]]
    BY ConstantsAssumption DEF TypeOK, NoJob, QueuedJob, Retried, MasterType, NoTodo, MasterPc,
       FinType, FinPc, Status, NoFin, QueuedFin

\* A queue.add under a fixed job id leaves every master job well formed.
LEMMA AddMasterType ==
    ASSUME TypeOK, NEW k \in Kinds, AddMaster(k)
    PROVE  master' \in [Kinds -> MasterType]
    BY JobTypes DEF AddMaster

\* Spending the budget keeps it in range.
LEMMA SpendType ==
    ASSUME TypeOK, NEW kind, Spend(kind)
    PROVE  budget' \in 0 .. Budget
    BY ConstantsAssumption DEF TypeOK, Spend

LEMMA InitTypeOK == Init => TypeOK
<1> SUFFICES ASSUME Init PROVE TypeOK
    OBVIOUS
<1>1. sess \in [SessionIds -> SessionRow]
    BY DEF Init, NoRow, SessionRow
<1>2. fin \in [SessionIds -> [Dispatchers -> FinType]]
    <2>1. NoFin \in FinType
        BY DEF NoFin, FinType, FinPc, Status
    <2> QED
        BY <2>1 DEF Init
<1>3. NoJob \in MasterType /\ QueuedJob(1) \in MasterType
    BY DEF NoJob, QueuedJob, NoTodo, MasterType, MasterPc
<1>4. master \in [Kinds -> MasterType]
    BY <1>3 DEF Init
<1>5. mbox \in [SessionIds -> [Mailboxes -> MailboxPc]]
    BY DEF Init, MailboxPc
<1>6. tick \in [ pc : TickPc, redo : SUBSET SessionIds, stuck : SUBSET SessionIds,
                 doomed : SUBSET SessionIds ]
    BY DEF Init, IdleTick, TickPc
<1>7. roster \in [SessionIds -> SUBSET Mailboxes] /\ okBy \in [SessionIds -> SUBSET Mailboxes]
    BY DEF Init
<1>8. /\ status \in Status
      /\ startedOld \in BOOLEAN
      /\ force \in { "idle", "reset", "add" }
    BY DEF Init, Status
<1>9. budget \in 0 .. Budget
    BY ConstantsAssumption DEF Init
<1> QED
    BY <1>1, <1>2, <1>4, <1>5, <1>6, <1>7, <1>8, <1>9 DEF TypeOK, MasterType, FinType


\* The steps of the master jobs.

LEMMA MasterTypeOK ==
    ASSUME TypeOK, NEW k \in Kinds, MasterNext(k)
    PROVE  TypeOK'
<1> USE JobTypes, SpendType DEF Kinds, Status, MidCycle
<1>1. CASE MasterClaim(k)
    <2>1. master' \in [Kinds -> MasterType]
        BY <1>1 DEF MasterClaim, MasterType, MasterPc
    <2>2. status' \in Status /\ startedOld' \in BOOLEAN
        BY <1>1 DEF MasterClaim, ClaimedStatus, TypeOK
    <2> QED
        BY <1>1, <2>1, <2>2 DEF MasterClaim, TypeOK, MasterType
<1>2. CASE MasterClaimFail(k)
    BY <1>2, ZenonT(60) DEF MasterClaimFail, TypeOK, ClaimedStatus, MasterType, MasterPc
<1>10. CASE MasterClaimLost(k)
    <2>1. \A v \in MasterType : [master EXCEPT ![k] = v] \in [Kinds -> MasterType]
        OBVIOUS
    <2>2. Retried(k) \in MasterType /\ [master[k] EXCEPT !.pc = "catch"] \in MasterType
        BY DEF MasterType, MasterPc
    <2>3. master' \in [Kinds -> MasterType] /\ budget' \in 0 .. Budget
        BY <1>10, <2>1, <2>2 DEF MasterClaimLost
    <2> QED
        BY <1>10, <2>3 DEF MasterClaimLost, TypeOK, MasterType
<1>3. CASE MasterNoUsers(k)
    BY <1>3, ConstantsAssumption DEF MasterNoUsers, TypeOK, EmptyStatus, FinishedStatus, MasterType
<1>4. ASSUME NEW s \in SessionIds, NEW users \in SUBSET Mailboxes, MasterCreateSession(k, s, users)
      PROVE  TypeOK'
    <2>1. Cardinality(users) \in Nat
        BY ConstantsAssumption, FS_Subset, FS_CardinalityType
    <2>2. sess' \in [SessionIds -> SessionRow]
        BY <1>4, <2>1 DEF MasterCreateSession, TypeOK, SessionRow, NoRow
    <2>3. master' \in [Kinds -> MasterType]
        BY <1>4, ZenonT(60) DEF MasterCreateSession, MasterType, MasterPc
    <2> QED
        BY <1>4, <2>2, <2>3 DEF MasterCreateSession, TypeOK, MasterType
<1>5. ASSUME NEW s \in SessionIds, NEW page \in SUBSET Mailboxes, MasterEnqueue(k, s, page)
      PROVE  TypeOK'
    <2>1. master' \in [Kinds -> MasterType]
        <3>1. CASE page = master[k].todo[s]
            BY <1>5, <3>1 DEF MasterEnqueue
        <3>2. CASE page # master[k].todo[s]
            <4>1. [master[k].todo EXCEPT ![s] = @ \ page] \in [SessionIds -> SUBSET Mailboxes]
                BY DEF MasterType
            <4>2. [master[k] EXCEPT !.todo = [master[k].todo EXCEPT ![s] = @ \ page]] \in MasterType
                BY <4>1 DEF MasterType
            <4> QED
                BY <1>5, <3>2, <4>2 DEF MasterEnqueue
        <3> QED
            BY <3>1, <3>2
    <2>2. mbox' \in [SessionIds -> [Mailboxes -> MailboxPc]]
        BY <1>5 DEF MasterEnqueue, TypeOK, MailboxPc
    <2> QED
        BY <1>5, <2>1, <2>2 DEF MasterEnqueue, TypeOK, MasterType
<1>6. CASE MasterThrow(k)
    <2>1. master' \in [Kinds -> MasterType]
        BY <1>6, SMTT(30) DEF MasterThrow, MasterType, MasterPc, NoTodo
    <2>2. budget' \in 0 .. Budget
        BY <1>6 DEF MasterThrow
    <2> QED
        BY <1>6, <2>1, <2>2 DEF MasterThrow, TypeOK, MasterType
<1>7. CASE MasterCatch(k)
    BY <1>7 DEF MasterCatch, TypeOK, MasterType
<1>8. CASE MasterCatchFail(k)
    BY <1>8 DEF MasterCatchFail, TypeOK, MasterType
<1>9. CASE FailStalledMaster(k)
    BY <1>9 DEF FailStalledMaster, TypeOK, MasterType
<1> QED
    BY <1>1, <1>2, <1>3, <1>4, <1>5, <1>6, <1>7, <1>8, <1>9, <1>10 DEF MasterNext

\* The counter UPDATE of a report.

LEMMA RecordTypeOK ==
    ASSUME TypeOK, NEW s \in SessionIds, NEW m \in Mailboxes,
           NEW c \in BOOLEAN, NEW last \in MailboxPc, NEW other \in MailboxPc, Record(s, m, c, last, other)
    PROVE  TypeOK'
<1>0. /\ \A v \in MailboxPc :
            [mbox EXCEPT ![s][m] = v] \in [SessionIds -> [Mailboxes -> MailboxPc]]
      /\ "none" \in MailboxPc
    BY DEF TypeOK, MailboxPc
<1>1. CASE sess[s].row
    <2>1. Counted(sess[s], c) \in SessionRow
        BY DEF Counted, TypeOK, SessionRow
    <2>2. sess' \in [SessionIds -> SessionRow]
        BY <1>1, <2>1 DEF Record, TypeOK
    <2>3. mbox' \in [SessionIds -> [Mailboxes -> MailboxPc]]
        BY <1>0, <1>1 DEF Record
    <2>4. okBy' \in [SessionIds -> SUBSET Mailboxes]
        BY <1>1 DEF Record, TypeOK
    <2> QED
        BY <2>2, <2>3, <2>4 DEF Record, TypeOK
<1>2. CASE ~ sess[s].row
    <2>1. mbox' \in [SessionIds -> [Mailboxes -> MailboxPc]]
        BY <1>0, <1>2 DEF Record
    <2> QED
        BY <1>2, <2>1 DEF Record, TypeOK
<1> QED
    BY <1>1, <1>2

\* The steps of the mailbox jobs.

LEMMA MailboxTypeOK ==
    ASSUME TypeOK, NEW s \in SessionIds, NEW m \in Mailboxes, MailboxNext(s, m)
    PROVE  TypeOK'
<1> USE SpendType DEF MailboxPc
<1>1. CASE MailboxStart(s, m)
    BY <1>1 DEF MailboxStart, TypeOK
<1>2. CASE MailboxSucceed(s, m)
    BY <1>2, RecordTypeOK DEF MailboxSucceed
<1>3. CASE MailboxPartial(s, m)
    BY <1>3, RecordTypeOK DEF MailboxPartial
<1>4. CASE MailboxSkip(s, m)
    BY <1>4, RecordTypeOK DEF MailboxSkip
<1>5. CASE MailboxThrow(s, m)
    BY <1>5 DEF MailboxThrow, TypeOK
<1>6. CASE MailboxReport(s, m)
    BY <1>6, RecordTypeOK DEF MailboxReport
<1>7. CASE MailboxReportFail(s, m)
    BY <1>7 DEF MailboxReportFail, TypeOK
<1>8. CASE MailboxMerge(s, m)
    BY <1>8 DEF MailboxMerge, TypeOK
<1>9. CASE MailboxMergeFail(s, m)
    BY <1>9 DEF MailboxMergeFail, TypeOK
<1>10. CASE MailboxDispatch(s, m)
    <2>1. m \in Dispatchers
        BY DEF Dispatchers
    <2> QED
        BY <1>10, <2>1 DEF MailboxDispatch, TypeOK, QueuedFin, FinPc, Status
<1>11. CASE MailboxDispatchFail(s, m)
    BY <1>11 DEF MailboxDispatchFail, TypeOK
<1>12. CASE MailboxHeartbeat(s, m)
    BY <1>12, ZenonT(60) DEF MailboxHeartbeat, TypeOK, SessionRow
<1>13. CASE FailStalledMailbox(s, m)
    BY <1>13 DEF FailStalledMailbox, TypeOK
<1> QED
    BY <1>1, <1>2, <1>3, <1>4, <1>5, <1>6, <1>7, <1>8, <1>9, <1>10, <1>11, <1>12, <1>13
       DEF MailboxNext

\* The steps of the finalizers.

LEMMA FinTypeOK ==
    ASSUME TypeOK, NEW s \in SessionIds, NEW f \in Dispatchers, FinNext(s, f)
    PROVE  TypeOK'
<1> USE SpendType DEF FinPc, Status
<1>1. CASE FinRead(s, f)
    <2>1. Verdict(sess[s]) \in Status
        BY ConstantsAssumption DEF Verdict, FinishedStatus, TypeOK
    <2> QED
        BY <1>1, <2>1 DEF FinRead, TypeOK
<1>2. CASE FinWrite(s, f)
    BY <1>2 DEF FinWrite, TypeOK
<1>3. CASE FinDelete(s, f)
    BY <1>3 DEF FinDelete, DeleteSession, TypeOK, NoRow, SessionRow, NoFin
<1>4. CASE FinCatch(s, f)
    BY <1>4 DEF FinCatch, TypeOK
<1>5. CASE FinFail(s, f)
    <2>1. PICK v \in FinType : fin' = [fin EXCEPT ![s][f] = v]
        <3>1. /\ [pc |-> "catch", to |-> "error"] \in FinType
              /\ QueuedFin \in FinType
              /\ NoFin \in FinType
            BY DEF FinType, QueuedFin, NoFin
        <3> QED
            BY <1>5, <3>1 DEF FinFail
    <2>2. budget' \in 0 .. Budget
        BY <1>5 DEF FinFail
    <2> QED
        BY <1>5, <2>1, <2>2 DEF FinFail, TypeOK, FinType
<1>6. CASE FailStalledFin(s, f)
    BY <1>6 DEF FailStalledFin, TypeOK, NoFin
<1> QED
    BY <1>1, <1>2, <1>3, <1>4, <1>5, <1>6 DEF FinNext

\* The steps of the scheduler's tick.

LEMMA TickTypeOK ==
    ASSUME TypeOK, TickNext
    PROVE  TypeOK'
<1> USE SpendType DEF TickPc, Status
<1>1. CASE TickStart
    BY <1>1 DEF TickStart, TypeOK
<1>2. ASSUME NEW s \in SessionIds, TickRedispatch(s)
      PROVE  TypeOK'
    <2>1. "sweep" \in Dispatchers
        BY DEF Dispatchers
    <2> QED
        BY <1>2, <2>1 DEF TickRedispatch, TypeOK, QueuedFin, FinPc
<1>3. ASSUME NEW s \in SessionIds, TickFailSource(s)
      PROVE  TypeOK'
    BY <1>3 DEF TickFailSource, TypeOK
<1>4. ASSUME NEW s \in SessionIds, TickDeleteSession(s)
      PROVE  TypeOK'
    BY <1>4 DEF TickDeleteSession, DeleteSession, TypeOK, NoRow, SessionRow
<1>5. CASE TickSelectSessionless
    BY <1>5 DEF TickSelectSessionless, TypeOK
<1>6. CASE TickProbe
    BY <1>6 DEF TickProbe, TypeOK
<1>7. CASE TickRelease
    BY <1>7 DEF TickRelease, TypeOK
<1>8. CASE TickSweepFail
    BY <1>8 DEF TickSweepFail, TypeOK, IdleTick
<1>9. CASE TickDispatch
    <2>1. master' \in [Kinds -> MasterType]
        BY <1>9, AddMasterType, JobTypes DEF TickDispatch, Kinds
    <2> QED
        BY <1>9, <2>1 DEF TickDispatch, TypeOK, IdleTick, MasterType
<1> QED
    BY <1>1, <1>2, <1>3, <1>4, <1>5, <1>6, <1>7, <1>8, <1>9 DEF TickNext

\* The operator's commands.

LEMMA OperatorTypeOK ==
    ASSUME TypeOK, OperatorNext
    PROVE  TypeOK'
<1> USE SpendType DEF Status, Kinds
<1>1. CASE Pause
    BY <1>1 DEF Pause, TypeOK
<1>2. CASE Resume
    BY <1>2 DEF Resume, TypeOK
<1>3. CASE TriggerImport
    BY <1>3, AddMasterType DEF TriggerImport, TypeOK, MasterType
<1>4. CASE ForceRemoveJobs
    <2>1. master' \in [Kinds -> MasterType]
        BY <1>4, JobTypes DEF ForceRemoveJobs
    <2>2. fin' \in [SessionIds -> [Dispatchers -> FinType]]
        BY <1>4, JobTypes DEF ForceRemoveJobs
    <2> QED
        BY <1>4, <2>1, <2>2 DEF ForceRemoveJobs, TypeOK, MasterType, FinType, MailboxPc
<1>5. CASE ForceResetStatus
    BY <1>5 DEF ForceResetStatus, TypeOK
<1>6. CASE ForceAdd
    BY <1>6, AddMasterType DEF ForceAdd, TypeOK, MasterType
<1> QED
    BY <1>1, <1>2, <1>3, <1>4, <1>5, <1>6 DEF OperatorNext

\* Time and crashes.

LEMMA EnvTypeOK ==
    ASSUME TypeOK, EnvNext
    PROVE  TypeOK'
<1> USE SpendType
<1>1. ASSUME NEW s \in SessionIds, SessionAges(s)
      PROVE  TypeOK'
    BY <1>1, ZenonT(60) DEF SessionAges, TypeOK, SessionRow
<1>2. CASE StartAges
    BY <1>2 DEF StartAges, TypeOK
<1>3. CASE WorkerCrash
    <2>1. master' \in [Kinds -> MasterType]
        BY <1>3, JobTypes DEF WorkerCrash, MasterType, MasterPc, NoJob, Kinds
    <2>2. fin' \in [SessionIds -> [Dispatchers -> FinType]]
        <3>1. [NoFin EXCEPT !.pc = "stalled"] \in FinType
            BY DEF NoFin, FinType, FinPc, Status
        <3>2. fin \in [SessionIds -> [Dispatchers -> FinType]]
            BY DEF TypeOK, FinType
        <3> QED
            BY <1>3, <3>1, <3>2 DEF WorkerCrash
    <2>3. budget' \in 0 .. Budget
        BY <1>3 DEF WorkerCrash
    <2> QED
        BY <1>3, <2>1, <2>2, <2>3, ZenonT(60)
           DEF WorkerCrash, TypeOK, MasterType, FinType, MailboxPc, IdleTick, TickPc
<1> QED
    BY <1>1, <1>2, <1>3 DEF EnvNext

\* Every variable of a sync cycle keeps its type: a status the column's enum
\* has, counters that are naturals, job states a processor can be in.
THEOREM TypeCorrect == Spec => []TypeOK
<1>1. Init => TypeOK
    BY InitTypeOK
<1>2. TypeOK /\ [Next]_vars => TypeOK'
    <2> SUFFICES ASSUME TypeOK, [Next]_vars PROVE TypeOK'
        OBVIOUS
    <2>1. CASE Next
        BY <2>1, MasterTypeOK, MailboxTypeOK, FinTypeOK, TickTypeOK, OperatorTypeOK, EnvTypeOK
           DEF Next
    <2>2. CASE UNCHANGED vars
        BY <2>2 DEF vars, TypeOK
    <2> QED
        BY <2>1, <2>2
<1> QED
    BY <1>1, <1>2, PTL DEF Spec

-----------------------------------------------------------------------------
(* The inductive invariant                                                 *)

\* A session's row agrees with the history: the total is the size of the
\* roster, the completed count is the number of mailboxes counted, each once.
RowCounts ==
    \A s \in SessionIds :
        IF sess[s].row
        THEN /\ sess[s].total = Cardinality(roster[s])
             /\ sess[s].completed = Cardinality(okBy[s])
             /\ okBy[s] \subseteq roster[s]
        ELSE okBy[s] = {} /\ roster[s] = {}

\* A mailbox that is still to be archived has not been counted.
PendingUncounted ==
    \A s \in SessionIds, m \in Mailboxes :
        sess[s].row /\ mbox[s][m] \in { "waiting", "running" } => m \in roster[s] \ okBy[s]

\* A mailbox that a master has still to enqueue has no job and was not
\* counted, and only one master has it to enqueue.
TodoFresh ==
    \A s \in SessionIds, m \in Mailboxes, k \in Kinds :
        sess[s].row /\ m \in master[k].todo[s] =>
            /\ m \in roster[s] \ okBy[s]
            /\ mbox[s][m] = "none"
            /\ \A j \in Kinds : j # k => m \notin master[j].todo[s]

\* Whoever is about to dispatch a finalizer has seen every mailbox reported.
DispatchersSawAll ==
    \A s \in SessionIds :
        /\ sess[s].row
        /\ \/ \E m \in Mailboxes : mbox[s][m] \in { "mergeLast", "dispatch", "redispatch" }
           \/ s \in tick.redo
        => AllReported(sess[s])

IInv ==
    /\ TypeOK
    /\ RowCounts
    /\ PendingUncounted
    /\ TodoFresh
    /\ DispatchersSawAll
    /\ FinalizersComeLast
    /\ SuccessMeansAllCompleted

\* A step that deletes, counts and starts nothing: the rows keep their counts,
\* jobs only advance, and nobody becomes a dispatcher or a successful finalizer.
QuietStep ==
    /\ \A s \in SessionIds :
          /\ sess'[s].row = sess[s].row
          /\ sess'[s].total = sess[s].total
          /\ sess'[s].completed = sess[s].completed
          /\ sess'[s].failed = sess[s].failed
    /\ roster' = roster
    /\ okBy' = okBy
    /\ \A s \in SessionIds, m \in Mailboxes :
          \/ mbox'[s][m] = mbox[s][m]
          \/ mbox'[s][m] = "none"
          \/ mbox[s][m] # "none" /\ mbox'[s][m] \in { "stalled", "report" }
          \/ mbox[s][m] = "waiting" /\ mbox'[s][m] = "running"
          \/ mbox[s][m] = "mergeLast" /\ mbox'[s][m] = "dispatch"
    /\ \A s \in SessionIds, f \in Dispatchers :
          \/ fin'[s][f] = fin[s][f]
          \/ fin'[s][f].pc = "none"
          \/ fin[s][f].pc # "none" /\ fin'[s][f].pc # "write"
    /\ \A s \in SessionIds, k \in Kinds : master'[k].todo[s] \subseteq master[k].todo[s]
    /\ tick'.redo \subseteq tick.redo

LEMMA QuietStepIInv ==
    ASSUME IInv, TypeOK', QuietStep
    PROVE  IInv'
<1>1. \A s \in SessionIds : AllReported(sess'[s]) <=> AllReported(sess[s])
    BY DEF QuietStep, AllReported
<1>2. RowCounts'
    BY DEF IInv, QuietStep, RowCounts
<1>3. PendingUncounted'
    BY DEF IInv, QuietStep, PendingUncounted
<1>4. TodoFresh'
    <2> SUFFICES ASSUME NEW s \in SessionIds, NEW m \in Mailboxes, NEW k \in Kinds,
                        sess'[s].row, m \in master'[k].todo[s]
                 PROVE  /\ m \in roster'[s] \ okBy'[s]
                        /\ mbox'[s][m] = "none"
                        /\ \A j \in Kinds : j # k => m \notin master'[j].todo[s]
        BY DEF TodoFresh
    <2>1. sess[s].row /\ m \in master[k].todo[s]
        BY DEF QuietStep
    <2>2. /\ m \in roster[s] \ okBy[s]
          /\ mbox[s][m] = "none"
          /\ \A j \in Kinds : j # k => m \notin master[j].todo[s]
        BY <2>1 DEF IInv, TodoFresh
    <2> QED
        BY <2>2 DEF QuietStep
<1>5. DispatchersSawAll'
    BY <1>1 DEF IInv, QuietStep, DispatchersSawAll
<1>6. FinalizersComeLast'
    BY <1>1 DEF IInv, QuietStep, FinalizersComeLast
<1>7. SuccessMeansAllCompleted'
    BY DEF IInv, QuietStep, SuccessMeansAllCompleted
<1> QED
    BY <1>2, <1>3, <1>4, <1>5, <1>6, <1>7 DEF IInv

\* Deleting a session's row, with the finalizer that does it if there is one.
LEMMA DeleteIInv ==
    ASSUME IInv, TypeOK', NEW s \in SessionIds, DeleteSession(s),
           mbox' = mbox, master' = master, tick'.redo = tick.redo,
           \A t \in SessionIds, f \in Dispatchers :
               fin'[t][f] = fin[t][f] \/ fin'[t][f].pc = "none"
    PROVE  IInv'
<1>1. /\ ~ sess'[s].row /\ okBy'[s] = {} /\ roster'[s] = {}
      /\ \A t \in SessionIds \ {s} :
            sess'[t] = sess[t] /\ okBy'[t] = okBy[t] /\ roster'[t] = roster[t]
    BY DEF DeleteSession, NoRow, IInv, TypeOK
<1>2. RowCounts'
    BY <1>1 DEF IInv, RowCounts
<1>3. PendingUncounted'
    BY <1>1 DEF IInv, PendingUncounted
<1>4. TodoFresh'
    BY <1>1 DEF IInv, TodoFresh
<1>5. DispatchersSawAll'
    BY <1>1 DEF IInv, DispatchersSawAll, AllReported
<1>6. FinalizersComeLast'
    BY <1>1 DEF IInv, FinalizersComeLast, AllReported
<1>7. SuccessMeansAllCompleted'
    <2> SUFFICES ASSUME NEW t \in SessionIds, NEW f \in Dispatchers,
                        fin'[t][f].pc = "write", fin'[t][f].to \in { "active", "imported" }
                 PROVE  okBy'[t] = roster'[t]
        BY DEF SuccessMeansAllCompleted
    <2>1. fin'[t][f] = fin[t][f]
        OBVIOUS
    <2>2. okBy[t] = roster[t]
        BY <2>1 DEF IInv, SuccessMeansAllCompleted
    <2> QED
        BY <1>1, <2>2
<1> QED
    BY <1>2, <1>3, <1>4, <1>5, <1>6, <1>7 DEF IInv

\* A mailbox's report, the first or a repeated one.
LEMMA RecordIInv ==
    ASSUME IInv, TypeOK', NEW s \in SessionIds, NEW m \in Mailboxes, NEW c \in BOOLEAN,
           NEW last \in { "mergeLast", "dispatch", "redispatch" },
           NEW other \in { "merge", "none" },
           mbox[s][m] \in { "running", "report" }, c => mbox[s][m] = "running",
           Record(s, m, c, last, other)
    PROVE  IInv'
<1> TypeOK
    BY DEF IInv
<1>1. CASE ~ sess[s].row
    <2>1. QuietStep
        BY <1>1 DEF Record, QuietStep, TypeOK
    <2> QED
        BY <2>1, QuietStepIInv
<1>2. CASE sess[s].row
    <2> DEFINE new == Counted(sess[s], c)
    <2>1. /\ sess'[s] = new
          /\ \A t \in SessionIds \ {s} : sess'[t] = sess[t]
          /\ okBy'[s] = (IF c THEN okBy[s] \cup {m} ELSE okBy[s])
          /\ \A t \in SessionIds \ {s} : okBy'[t] = okBy[t]
          /\ mbox'[s][m] = (IF AllReported(new) THEN last ELSE other)
          /\ \A t \in SessionIds, n \in Mailboxes :
                t # s \/ n # m => mbox'[t][n] = mbox[t][n]
          /\ roster' = roster /\ master' = master /\ tick' = tick /\ fin' = fin
        BY <1>2 DEF Record, TypeOK
    <2>2. /\ new.row /\ new.total = sess[s].total
          /\ new.completed = (IF c THEN sess[s].completed + 1 ELSE sess[s].completed)
          /\ new.failed = (IF c THEN sess[s].failed ELSE sess[s].failed + 1)
          /\ sess[s] \in SessionRow
        BY DEF Counted, TypeOK
    <2>3. AllReported(sess[s]) => AllReported(new)
        BY <2>2 DEF AllReported, SessionRow
    <2>4. c => m \in roster[s] \ okBy[s]
        BY <1>2 DEF IInv, PendingUncounted
    <2>5. RowCounts'
        <3>1. c => Cardinality(okBy[s] \cup {m}) = Cardinality(okBy[s]) + 1
            <4>1. IsFiniteSet(okBy[s])
                BY ConstantsAssumption, FS_Subset DEF TypeOK
            <4> QED
                BY <2>4, <4>1, FS_AddElement
        <3> QED
            BY <1>2, <2>1, <2>2, <2>4, <3>1 DEF IInv, RowCounts
    <2>6. PendingUncounted'
        BY <1>2, <2>1 DEF IInv, PendingUncounted
    <2>7. TodoFresh'
        BY <1>2, <2>1 DEF IInv, TodoFresh
    <2>8. DispatchersSawAll'
        BY <1>2, <2>1, <2>3 DEF IInv, DispatchersSawAll, AllReported
    <2>9. FinalizersComeLast'
        BY <1>2, <2>1, <2>3 DEF IInv, FinalizersComeLast, AllReported
    <2>10. SuccessMeansAllCompleted'
        BY <1>2, <2>1, <2>4 DEF IInv, SuccessMeansAllCompleted
    <2> QED
        BY <2>5, <2>6, <2>7, <2>8, <2>9, <2>10 DEF IInv
<1> QED
    BY <1>1, <1>2

\* The steps of the master jobs.

LEMMA MasterIInv ==
    ASSUME IInv, TypeOK', NEW k \in Kinds, MasterNext(k)
    PROVE  IInv'
<1> TypeOK
    BY DEF IInv
<1> USE JobTypes DEF MasterType
<1>1. CASE \/ MasterClaim(k) \/ MasterClaimFail(k) \/ MasterClaimLost(k) \/ MasterNoUsers(k) \/ MasterThrow(k)
           \/ MasterCatch(k) \/ MasterCatchFail(k) \/ FailStalledMaster(k)
    <2>1. UNCHANGED << sess, roster, okBy, mbox, fin, tick >>
        BY <1>1 DEF MasterClaim, MasterClaimFail, MasterClaimLost, MasterNoUsers, MasterThrow, MasterCatch,
           MasterCatchFail, FailStalledMaster
    <2>2. \A s \in SessionIds, j \in Kinds : master'[j].todo[s] \subseteq master[j].todo[s]
        <3>1. \A v \in { NoJob, Retried(k) } : \A s \in SessionIds : v.todo[s] = {}
            BY DEF NoJob, QueuedJob, Retried, NoTodo
        <3>2. CASE MasterClaim(k)
            BY <3>1, <3>2, SMTT(30) DEF MasterClaim
        <3>3. CASE MasterClaimFail(k)
            BY <3>1, <3>3 DEF MasterClaimFail
        <3>6. CASE MasterClaimLost(k)
            BY <3>1, <3>6 DEF MasterClaimLost
        <3>4. CASE MasterThrow(k)
            BY <3>4 DEF MasterThrow, NoTodo
        <3>5. CASE \/ MasterNoUsers(k) \/ MasterCatch(k) \/ MasterCatchFail(k)
                   \/ FailStalledMaster(k)
            BY <3>1, <3>5 DEF MasterNoUsers, MasterCatch, MasterCatchFail, FailStalledMaster
        <3> QED
            BY <1>1, <3>2, <3>3, <3>4, <3>5, <3>6
    <2>3. QuietStep
        BY <2>1, <2>2 DEF QuietStep
    <2> QED
        BY <2>3, QuietStepIInv
<1>2. ASSUME NEW s \in SessionIds, NEW users \in SUBSET Mailboxes, MasterCreateSession(k, s, users)
      PROVE  IInv'
    <2>1. /\ sess'[s].row /\ sess'[s].total = Cardinality(users)
          /\ sess'[s].completed = 0 /\ sess'[s].failed = 0
          /\ \A t \in SessionIds \ {s} : sess'[t] = sess[t]
          /\ roster'[s] = users
          /\ \A t \in SessionIds \ {s} : roster'[t] = roster[t]
          /\ UNCHANGED << okBy, mbox, fin, tick >>
        BY <1>2 DEF MasterCreateSession, NoRow, TypeOK
    <2>2. /\ master'[k].todo[s] = users
          /\ \A t \in SessionIds \ {s} : master'[k].todo[t] = master[k].todo[t]
          /\ \A j \in Kinds \ {k} : master'[j] = master[j]
        BY <1>2 DEF MasterCreateSession
    <2>3. /\ \A m \in Mailboxes : mbox[s][m] = "none"
          /\ \A f \in Dispatchers : fin[s][f].pc = "none"
          /\ \A j \in Kinds : master[j].todo[s] = {}
          /\ s \notin tick.redo
          /\ ~ sess[s].row
        BY <1>2 DEF MasterCreateSession, Free
    <2>4. okBy[s] = {}
        BY <2>3 DEF IInv, RowCounts
    <2>5. RowCounts'
        BY <2>1, <2>4, FS_EmptySet, ZenonT(60) DEF IInv, RowCounts
    <2>6. PendingUncounted'
        BY <2>1, <2>3 DEF IInv, PendingUncounted
    <2>7. TodoFresh'
        <3> SUFFICES ASSUME NEW t \in SessionIds, NEW m \in Mailboxes, NEW j \in Kinds,
                            sess'[t].row, m \in master'[j].todo[t]
                     PROVE  /\ m \in roster'[t] \ okBy'[t]
                            /\ mbox'[t][m] = "none"
                            /\ \A i \in Kinds : i # j => m \notin master'[i].todo[t]
            BY DEF TodoFresh
        <3>1. CASE t = s
            <4>1. j = k /\ m \in users
                BY <2>2, <2>3, <3>1
            <4> QED
                BY <2>1, <2>2, <2>3, <2>4, <3>1, <4>1
        <3>2. CASE t # s
            <4>1. sess[t].row /\ m \in master[j].todo[t]
                BY <2>1, <2>2, <3>2
            <4>2. /\ m \in roster[t] \ okBy[t]
                  /\ mbox[t][m] = "none"
                  /\ \A i \in Kinds : i # j => m \notin master[i].todo[t]
                BY <4>1 DEF IInv, TodoFresh
            <4> QED
                BY <2>1, <2>2, <3>2, <4>2
        <3> QED
            BY <3>1, <3>2
    <2>8. DispatchersSawAll'
        BY <2>1, <2>3 DEF IInv, DispatchersSawAll, AllReported
    <2>9. FinalizersComeLast'
        BY <2>1, <2>3 DEF IInv, FinalizersComeLast, AllReported
    <2>10. SuccessMeansAllCompleted'
        BY <2>1, <2>3 DEF IInv, SuccessMeansAllCompleted
    <2> QED
        BY <2>5, <2>6, <2>7, <2>8, <2>9, <2>10 DEF IInv
<1>3. ASSUME NEW s \in SessionIds, NEW page \in SUBSET Mailboxes, MasterEnqueue(k, s, page)
      PROVE  IInv'
    <2>1. UNCHANGED << sess, roster, okBy, fin, tick >>
        BY <1>3 DEF MasterEnqueue
    <2>2. /\ page \subseteq master[k].todo[s]
          /\ \A m \in Mailboxes : mbox'[s][m] = IF m \in page THEN "waiting" ELSE mbox[s][m]
          /\ \A t \in SessionIds \ {s} : mbox'[t] = mbox[t]
        BY <1>3 DEF MasterEnqueue, TypeOK
    <2>3. /\ master'[k].todo[s] \cap page = {}
          /\ \A t \in SessionIds : master'[k].todo[t] \subseteq master[k].todo[t]
          /\ \A j \in Kinds \ {k} : master'[j] = master[j]
        BY <1>3 DEF MasterEnqueue, NoJob, NoTodo
    <2>4. PendingUncounted'
        <3> SUFFICES ASSUME NEW t \in SessionIds, NEW m \in Mailboxes, sess[t].row,
                            mbox'[t][m] \in { "waiting", "running" }
                     PROVE  m \in roster[t] \ okBy[t]
            BY <2>1 DEF PendingUncounted
        <3>1. CASE t = s /\ m \in page
            <4>1. m \in master[k].todo[s]
                BY <2>2, <3>1
            <4> QED
                BY <3>1, <4>1 DEF IInv, TodoFresh
        <3>2. CASE t # s \/ m \notin page
            <4>1. mbox'[t][m] = mbox[t][m]
                BY <2>2, <3>2
            <4> QED
                BY <4>1 DEF IInv, PendingUncounted
        <3> QED
            BY <3>1, <3>2
    <2>5. TodoFresh'
        <3> SUFFICES ASSUME NEW t \in SessionIds, NEW m \in Mailboxes, NEW j \in Kinds,
                            sess'[t].row, m \in master'[j].todo[t]
                     PROVE  /\ m \in roster'[t] \ okBy'[t]
                            /\ mbox'[t][m] = "none"
                            /\ \A i \in Kinds : i # j => m \notin master'[i].todo[t]
            BY DEF TodoFresh
        <3>1. sess[t].row /\ m \in master[j].todo[t]
            BY <2>1, <2>3
        <3>2. /\ m \in roster[t] \ okBy[t]
              /\ mbox[t][m] = "none"
              /\ \A i \in Kinds : i # j => m \notin master[i].todo[t]
            BY <3>1 DEF IInv, TodoFresh
        <3>3. \A i \in Kinds : master'[i].todo[t] \subseteq master[i].todo[t]
            BY <2>3
        <3>4. mbox'[t][m] = "none"
            <4>1. CASE t # s
                BY <2>2, <3>2, <4>1
            <4>2. CASE t = s
                <5>1. m \notin page
                    BY <2>2, <2>3, <3>2, <4>2
                <5> QED
                    BY <2>2, <3>2, <4>2, <5>1
            <4> QED
                BY <4>1, <4>2
        <3> QED
            BY <2>1, <3>2, <3>3, <3>4
    <2>6. DispatchersSawAll'
        BY <2>1, <2>2 DEF IInv, DispatchersSawAll, AllReported
    <2>7. RowCounts' /\ FinalizersComeLast' /\ SuccessMeansAllCompleted'
        BY <2>1 DEF IInv, RowCounts, FinalizersComeLast, SuccessMeansAllCompleted, AllReported
    <2> QED
        BY <2>4, <2>5, <2>6, <2>7 DEF IInv
<1> QED
    BY <1>1, <1>2, <1>3 DEF MasterNext

\* The steps of the mailbox jobs.

LEMMA MailboxIInv ==
    ASSUME IInv, TypeOK', NEW s \in SessionIds, NEW m \in Mailboxes, MailboxNext(s, m)
    PROVE  IInv'
<1> TypeOK
    BY DEF IInv
<1>1. CASE \/ MailboxStart(s, m) \/ MailboxThrow(s, m) \/ MailboxReportFail(s, m)
           \/ MailboxMerge(s, m) \/ MailboxMergeFail(s, m) \/ MailboxDispatchFail(s, m)
           \/ FailStalledMailbox(s, m)
    <2>1. UNCHANGED << sess, roster, okBy, fin, master, tick >>
        BY <1>1 DEF MailboxStart, MailboxThrow, MailboxReportFail, MailboxMerge,
           MailboxMergeFail, MailboxDispatchFail, FailStalledMailbox
    <2>2. \A t \in SessionIds, n \in Mailboxes : t # s \/ n # m => mbox'[t][n] = mbox[t][n]
        BY <1>1 DEF MailboxStart, MailboxThrow, MailboxReportFail, MailboxMerge,
           MailboxMergeFail, MailboxDispatchFail, FailStalledMailbox, TypeOK
    <2>3. \/ mbox'[s][m] = "none"
          \/ mbox[s][m] # "none" /\ mbox'[s][m] = "report"
          \/ mbox[s][m] = "waiting" /\ mbox'[s][m] = "running"
          \/ mbox[s][m] = "mergeLast" /\ mbox'[s][m] = "dispatch"
        BY <1>1 DEF MailboxStart, MailboxThrow, MailboxReportFail, MailboxMerge,
           MailboxMergeFail, MailboxDispatchFail, FailStalledMailbox, TypeOK
    <2>4. QuietStep
        BY <2>1, <2>2, <2>3 DEF QuietStep
    <2> QED
        BY <2>4, QuietStepIInv
<1>2. CASE MailboxSucceed(s, m)
    BY <1>2, RecordIInv DEF MailboxSucceed
<1>3. CASE MailboxPartial(s, m)
    BY <1>3, RecordIInv DEF MailboxPartial
<1>4. CASE MailboxSkip(s, m)
    BY <1>4, RecordIInv DEF MailboxSkip
<1>5. CASE MailboxReport(s, m)
    BY <1>5, RecordIInv DEF MailboxReport
<1>6. CASE MailboxDispatch(s, m)
    <2>1. /\ UNCHANGED << sess, roster, okBy, master, tick >>
          /\ \A t \in SessionIds, n \in Mailboxes :
                mbox'[t][n] = mbox[t][n] \/ mbox'[t][n] = "none"
        BY <1>6 DEF MailboxDispatch, TypeOK
    <2>2. \A t \in SessionIds, f \in Dispatchers :
             fin'[t][f] = fin[t][f] \/ (t = s /\ fin'[t][f] = QueuedFin)
        BY <1>6 DEF MailboxDispatch, TypeOK
    <2>3. sess[s].row => AllReported(sess[s])
        BY <1>6 DEF MailboxDispatch, IInv, DispatchersSawAll
    <2>4. FinalizersComeLast'
        BY <2>1, <2>2, <2>3 DEF IInv, FinalizersComeLast, AllReported
    <2>5. SuccessMeansAllCompleted'
        BY <2>1, <2>2 DEF IInv, SuccessMeansAllCompleted, QueuedFin
    <2>6. RowCounts' /\ PendingUncounted'
        BY <2>1 DEF IInv, RowCounts, PendingUncounted
    <2>7. TodoFresh'
        BY <2>1 DEF IInv, TodoFresh
    <2>8. DispatchersSawAll'
        BY <2>1 DEF IInv, DispatchersSawAll, AllReported
    <2> QED
        BY <2>4, <2>5, <2>6, <2>7, <2>8 DEF IInv
<1>7. CASE MailboxHeartbeat(s, m)
    <2>1. QuietStep
        BY <1>7 DEF MailboxHeartbeat, QuietStep, TypeOK, SessionRow
    <2> QED
        BY <2>1, QuietStepIInv
<1> QED
    BY <1>1, <1>2, <1>3, <1>4, <1>5, <1>6, <1>7 DEF MailboxNext

\* The steps of the finalizers.  A successful verdict is sound because the
\* counters of a finished cycle without a failure leave no mailbox uncounted.

LEMMA VerdictSound ==
    ASSUME IInv, NEW s \in SessionIds, sess[s].row, AllReported(sess[s]),
           Verdict(sess[s]) \in { "active", "imported" }
    PROVE  okBy[s] = roster[s]
<1>1. sess[s].failed = 0
    BY DEF Verdict, IInv, TypeOK, SessionRow
<1>2. Cardinality(okBy[s]) >= Cardinality(roster[s]) /\ okBy[s] \subseteq roster[s]
    BY <1>1 DEF AllReported, IInv, RowCounts, TypeOK, SessionRow
<1>3. IsFiniteSet(roster[s])
    BY ConstantsAssumption, FS_Subset DEF IInv, TypeOK
<1>4. Cardinality(roster[s]) \in Nat /\ Cardinality(okBy[s]) \in Nat
    BY <1>2, <1>3, FS_Subset, FS_CardinalityType
<1> QED
    BY <1>2, <1>3, <1>4, FS_Subset

LEMMA FinIInv ==
    ASSUME IInv, TypeOK', NEW s \in SessionIds, NEW f \in Dispatchers, FinNext(s, f)
    PROVE  IInv'
<1> TypeOK
    BY DEF IInv
<1>1. CASE FinRead(s, f)
    <2>1. /\ UNCHANGED << sess, roster, okBy, mbox, master, tick >>
          /\ \A t \in SessionIds, g \in Dispatchers :
                t # s \/ g # f => fin'[t][g] = fin[t][g]
          /\ fin[s][f].pc # "none"
        BY <1>1 DEF FinRead, TypeOK
    <2>2. CASE sess[s].row
        <3>1. fin'[s][f] = [pc |-> "write", to |-> Verdict(sess[s])]
            BY <1>1, <2>2 DEF FinRead, TypeOK
        <3>2. AllReported(sess[s])
            BY <2>1, <2>2 DEF IInv, FinalizersComeLast
        <3>3. SuccessMeansAllCompleted'
            <4> SUFFICES ASSUME NEW t \in SessionIds, NEW g \in Dispatchers,
                                fin'[t][g].pc = "write",
                                fin'[t][g].to \in { "active", "imported" }
                         PROVE  okBy[t] = roster[t]
                BY <2>1 DEF SuccessMeansAllCompleted
            <4>1. CASE t = s /\ g = f
                BY <2>2, <3>1, <3>2, <4>1, VerdictSound
            <4>2. CASE t # s \/ g # f
                BY <2>1, <4>2 DEF IInv, SuccessMeansAllCompleted
            <4> QED
                BY <4>1, <4>2
        <3>4. FinalizersComeLast'
            BY <2>1, <3>2 DEF IInv, FinalizersComeLast, AllReported
        <3>5. RowCounts' /\ PendingUncounted' /\ TodoFresh'
            BY <2>1 DEF IInv, RowCounts, PendingUncounted, TodoFresh
        <3>6. DispatchersSawAll'
            BY <2>1 DEF IInv, DispatchersSawAll, AllReported
        <3> QED
            BY <3>3, <3>4, <3>5, <3>6 DEF IInv
    <2>3. CASE ~ sess[s].row
        <3>1. fin'[s][f].pc = "catch"
            BY <1>1, <2>3 DEF FinRead, TypeOK
        <3>2. QuietStep
            BY <2>1, <3>1 DEF QuietStep
        <3> QED
            BY <3>2, QuietStepIInv
    <2> QED
        BY <2>2, <2>3
<1>2. CASE FinWrite(s, f) \/ FinCatch(s, f) \/ FinFail(s, f) \/ FailStalledFin(s, f)
    <2>1. UNCHANGED << sess, roster, okBy, mbox, master, tick >>
        BY <1>2 DEF FinWrite, FinCatch, FinFail, FailStalledFin
    <2>2. \A t \in SessionIds, g \in Dispatchers :
             \/ fin'[t][g] = fin[t][g]
             \/ fin'[t][g].pc = "none"
             \/ fin[t][g].pc # "none" /\ fin'[t][g].pc # "write"
        <3>1. CASE FinWrite(s, f)
            BY <3>1 DEF FinWrite, TypeOK
        <3>2. CASE FinCatch(s, f)
            BY <3>2 DEF FinCatch, TypeOK
        <3>3. CASE FinFail(s, f)
            <4>1. QueuedFin.pc # "write" /\ NoFin.pc = "none"
                BY DEF QueuedFin, NoFin
            <4>2. \A t \in SessionIds, g \in Dispatchers :
                     t # s \/ g # f => fin'[t][g] = fin[t][g]
                BY <3>3 DEF FinFail, TypeOK
            <4>3. fin'[s][f].pc = "none" \/ (fin[s][f].pc # "none" /\ fin'[s][f].pc # "write")
                BY <3>3, <4>1 DEF FinFail, TypeOK
            <4> QED
                BY <4>2, <4>3
        <3>4. CASE FailStalledFin(s, f)
            BY <3>4 DEF FailStalledFin, TypeOK, NoFin
        <3> QED
            BY <1>2, <3>1, <3>2, <3>3, <3>4
    <2>3. QuietStep
        BY <2>1, <2>2 DEF QuietStep
    <2> QED
        BY <2>3, QuietStepIInv
<1>3. CASE FinDelete(s, f)
    <2>1. /\ DeleteSession(s)
          /\ mbox' = mbox /\ master' = master /\ tick'.redo = tick.redo
          /\ \A t \in SessionIds, g \in Dispatchers :
                fin'[t][g] = fin[t][g] \/ fin'[t][g].pc = "none"
        BY <1>3 DEF FinDelete, TypeOK, NoFin
    <2> QED
        BY <2>1, DeleteIInv
<1> QED
    BY <1>1, <1>2, <1>3 DEF FinNext

\* A master that is queued has nothing to enqueue yet.
LEMMA AddMasterTodo ==
    ASSUME TypeOK, NEW k \in Kinds, AddMaster(k)
    PROVE  \A s \in SessionIds, j \in Kinds : master'[j].todo[s] \subseteq master[j].todo[s]
<1>1. \A s \in SessionIds : QueuedJob(1).todo[s] = {}
    BY DEF QueuedJob, NoTodo
<1>2. \A j \in Kinds : master'[j] = master[j] \/ master'[j] = QueuedJob(1)
    BY JobTypes DEF AddMaster
<1> QED
    BY <1>1, <1>2

\* The steps of the scheduler's tick.

LEMMA TickIInv ==
    ASSUME IInv, TypeOK', TickNext
    PROVE  IInv'
<1> TypeOK
    BY DEF IInv
<1>1. CASE TickStart
    <2>1. UNCHANGED << sess, roster, okBy, mbox, fin, master >>
        BY <1>1 DEF TickStart
    <2>2. \A s \in tick'.redo : s \in SessionIds /\ AllReported(sess[s])
        BY <1>1 DEF TickStart
    <2>3. DispatchersSawAll'
        BY <2>1, <2>2 DEF IInv, DispatchersSawAll, AllReported
    <2>4. RowCounts' /\ PendingUncounted' /\ TodoFresh' /\ SuccessMeansAllCompleted'
        BY <2>1 DEF IInv, RowCounts, PendingUncounted, TodoFresh, SuccessMeansAllCompleted
    <2>5. FinalizersComeLast'
        BY <2>1 DEF IInv, FinalizersComeLast, AllReported
    <2> QED
        BY <2>3, <2>4, <2>5 DEF IInv
<1>2. ASSUME NEW s \in SessionIds, TickRedispatch(s)
      PROVE  IInv'
    <2>1. /\ UNCHANGED << sess, roster, okBy, mbox, master >>
          /\ tick'.redo \subseteq tick.redo
        BY <1>2 DEF TickRedispatch, TypeOK
    <2>2. \A t \in SessionIds, f \in Dispatchers :
             fin'[t][f] = fin[t][f] \/ (t = s /\ fin'[t][f] = QueuedFin)
        BY <1>2 DEF TickRedispatch, TypeOK
    <2>3. sess[s].row => AllReported(sess[s])
        BY <1>2 DEF TickRedispatch, IInv, DispatchersSawAll
    <2>4. FinalizersComeLast'
        BY <2>1, <2>2, <2>3 DEF IInv, FinalizersComeLast, AllReported
    <2>5. SuccessMeansAllCompleted'
        BY <2>1, <2>2 DEF IInv, SuccessMeansAllCompleted, QueuedFin
    <2>6. RowCounts' /\ PendingUncounted' /\ TodoFresh'
        BY <2>1 DEF IInv, RowCounts, PendingUncounted, TodoFresh
    <2>7. DispatchersSawAll'
        BY <2>1 DEF IInv, DispatchersSawAll, AllReported
    <2> QED
        BY <2>4, <2>5, <2>6, <2>7 DEF IInv
<1>3. ASSUME NEW s \in SessionIds, TickDeleteSession(s)
      PROVE  IInv'
    <2>1. /\ DeleteSession(s)
          /\ mbox' = mbox /\ master' = master /\ tick'.redo = tick.redo /\ fin' = fin
        BY <1>3 DEF TickDeleteSession, TypeOK
    <2> QED
        BY <2>1, DeleteIInv
<1>4. CASE \/ TickSelectSessionless \/ TickProbe \/ TickRelease \/ TickSweepFail
           \/ TickDispatch
           \/ \E s \in SessionIds : TickFailSource(s)
    <2>1. UNCHANGED << sess, roster, okBy, mbox, fin >>
        BY <1>4 DEF TickSelectSessionless, TickProbe, TickRelease, TickSweepFail, TickDispatch,
           TickFailSource
    <2>2. tick'.redo \subseteq tick.redo
        <3>1. tick'.redo = tick.redo \/ tick'.redo = {}
            <4>1. CASE TickSelectSessionless
                BY <4>1 DEF TickSelectSessionless, TypeOK
            <4>2. CASE TickProbe
                BY <4>2 DEF TickProbe, TypeOK
            <4>3. CASE TickRelease \/ \E s \in SessionIds : TickFailSource(s)
                BY <4>3 DEF TickRelease, TickFailSource, TypeOK
            <4>4. CASE TickSweepFail \/ TickDispatch
                BY <4>4 DEF TickSweepFail, TickDispatch, IdleTick
            <4> QED
                BY <1>4, <4>1, <4>2, <4>3, <4>4
        <3> QED
            BY <3>1
    <2>3. \A s \in SessionIds, k \in Kinds : master'[k].todo[s] \subseteq master[k].todo[s]
        <3>1. CASE TickDispatch
            BY <3>1, AddMasterTodo DEF TickDispatch, Kinds
        <3>2. CASE ~ TickDispatch
            BY <1>4, <3>2 DEF TickSelectSessionless, TickProbe, TickRelease, TickSweepFail,
               TickFailSource
        <3> QED
            BY <3>1, <3>2
    <2>4. QuietStep
        BY <2>1, <2>2, <2>3 DEF QuietStep
    <2> QED
        BY <2>4, QuietStepIInv
<1> QED
    BY <1>1, <1>2, <1>3, <1>4 DEF TickNext

\* The operator's commands.

LEMMA OperatorIInv ==
    ASSUME IInv, TypeOK', OperatorNext
    PROVE  IInv'
<1> TypeOK
    BY DEF IInv
<1>1. CASE Pause \/ Resume \/ ForceResetStatus
    <2>1. QuietStep
        BY <1>1 DEF Pause, Resume, ForceResetStatus, QuietStep
    <2> QED
        BY <2>1, QuietStepIInv
<1>2. CASE TriggerImport \/ ForceAdd
    <2>1. UNCHANGED << sess, roster, okBy, mbox, fin, tick >>
        BY <1>2 DEF TriggerImport, ForceAdd
    <2>2. \A s \in SessionIds, k \in Kinds : master'[k].todo[s] \subseteq master[k].todo[s]
        BY <1>2, AddMasterTodo DEF TriggerImport, ForceAdd, Kinds
    <2>3. QuietStep
        BY <2>1, <2>2 DEF QuietStep
    <2> QED
        BY <2>3, QuietStepIInv
<1>3. CASE ForceRemoveJobs
    <2>1. QuietStep
        BY <1>3 DEF ForceRemoveJobs, QuietStep, NoJob, NoTodo, NoFin, TypeOK
    <2> QED
        BY <2>1, QuietStepIInv
<1> QED
    BY <1>1, <1>2, <1>3 DEF OperatorNext

\* Time and crashes.

LEMMA EnvIInv ==
    ASSUME IInv, TypeOK', EnvNext
    PROVE  IInv'
<1> TypeOK
    BY DEF IInv
<1>1. ASSUME NEW s \in SessionIds, SessionAges(s)
      PROVE  IInv'
    <2>1. QuietStep
        BY <1>1 DEF SessionAges, QuietStep, TypeOK, SessionRow
    <2> QED
        BY <2>1, QuietStepIInv
<1>2. CASE StartAges
    <2>1. QuietStep
        BY <1>2 DEF StartAges, QuietStep
    <2> QED
        BY <2>1, QuietStepIInv
<1>3. CASE WorkerCrash
    <2>1. UNCHANGED << sess, roster, okBy >> /\ tick'.redo = {}
        BY <1>3 DEF WorkerCrash, IdleTick
    <2>2. \A s \in SessionIds, k \in Kinds : master'[k].todo[s] \subseteq master[k].todo[s]
        BY <1>3 DEF WorkerCrash, NoJob, NoTodo, TypeOK
    <2>3. \A s \in SessionIds, m \in Mailboxes :
             \/ mbox'[s][m] = mbox[s][m]
             \/ mbox[s][m] # "none" /\ mbox'[s][m] = "stalled"
        BY <1>3 DEF WorkerCrash, MailboxLive, TypeOK
    <2>4. \A s \in SessionIds, f \in Dispatchers :
             \/ fin'[s][f] = fin[s][f]
             \/ fin[s][f].pc # "none" /\ fin'[s][f].pc = "stalled"
        BY <1>3 DEF WorkerCrash, FinActive, TypeOK, NoFin
    <2>5. QuietStep
        BY <2>1, <2>2, <2>3, <2>4 DEF QuietStep
    <2> QED
        BY <2>5, QuietStepIInv
<1> QED
    BY <1>1, <1>2, <1>3 DEF EnvNext

LEMMA InitIInv == Init => IInv
<1> SUFFICES ASSUME Init PROVE IInv
    OBVIOUS
<1>1. TypeOK
    BY InitTypeOK
<1>2. /\ \A s \in SessionIds : ~ sess[s].row /\ okBy[s] = {} /\ roster[s] = {}
      /\ \A s \in SessionIds, f \in Dispatchers : fin[s][f].pc = "none"
    BY DEF Init, NoRow, NoFin
<1> QED
    BY <1>1, <1>2 DEF IInv, RowCounts, PendingUncounted, TodoFresh, DispatchersSawAll,
       FinalizersComeLast, SuccessMeansAllCompleted

\* The invariant is inductive.
THEOREM Invariant == Spec => []IInv
<1>1. Init => IInv
    BY InitIInv
<1>2. IInv /\ TypeOK' /\ [Next]_vars => IInv'
    <2> SUFFICES ASSUME IInv, TypeOK', [Next]_vars PROVE IInv'
        OBVIOUS
    <2>1. CASE Next
        BY <2>1, MasterIInv, MailboxIInv, FinIInv, TickIInv, OperatorIInv, EnvIInv DEF Next
    <2>2. CASE UNCHANGED vars
        <3>1. QuietStep
            BY <2>2 DEF vars, QuietStep
        <3> QED
            BY <3>1, QuietStepIInv
    <2> QED
        BY <2>1, <2>2
<1> QED
    BY <1>1, <1>2, TypeCorrect, PTL DEF Spec

\* A finalizer exists only for a session whose counters are full: neither a
\* crash, nor the sweep's re-dispatch, nor a job left over from a deleted
\* session starts one early.  (What fills the counters is CountedOnceAlways.)
THEOREM FinalizersLast == Spec => []FinalizersComeLast
BY Invariant, PTL DEF IInv

\* A source is reported active or imported only when every mailbox of the
\* cycle was counted as completed.
THEOREM SuccessSound == Spec => []SuccessMeansAllCompleted
BY Invariant, PTL DEF IInv

-----------------------------------------------------------------------------
(* Who may work on a source: what the counters, the sweep and the claim of   *)
(* SyncCycle guarantee, for any set of mailboxes and any number of sessions. *)
(* Each theorem names the faults and commands it does not survive; every     *)
(* other one may happen at any time and any number of times.                 *)

-----------------------------------------------------------------------------
(* What each actor leaves alone                                            *)

Resting == { "none", "stalled" }

LEMMA MailboxFrame ==
    ASSUME TypeOK, NEW s \in SessionIds, NEW m \in Mailboxes, MailboxNext(s, m)
    PROVE  /\ UNCHANGED << status, startedOld, roster, master, tick >>
           /\ \A t \in SessionIds : t # s => sess'[t] = sess[t]
           /\ \A t \in SessionIds, n \in Mailboxes : t # s \/ n # m => mbox'[t][n] = mbox[t][n]
           /\ fin' = fin \/ MailboxDispatch(s, m)
<1>1. UNCHANGED << status, startedOld, roster, master, tick >> /\ (fin' = fin \/ MailboxDispatch(s, m))
    BY DEF MailboxNext, MailboxStart, MailboxSucceed, MailboxPartial, MailboxSkip, MailboxThrow, MailboxReport,
       MailboxReportFail, MailboxMerge, MailboxMergeFail, MailboxDispatch, MailboxDispatchFail, MailboxHeartbeat,
       FailStalledMailbox, Record
<1>2. \A t \in SessionIds : t # s => sess'[t] = sess[t]
    <2>1. sess' = sess \/ \E v : sess' = [sess EXCEPT ![s] = v]
        BY DEF MailboxNext, MailboxStart, MailboxSucceed, MailboxPartial, MailboxSkip, MailboxThrow, MailboxReport,
           MailboxReportFail, MailboxMerge, MailboxMergeFail, MailboxDispatch, MailboxDispatchFail, MailboxHeartbeat,
           FailStalledMailbox, Record
    <2> QED
        BY <2>1 DEF TypeOK
<1>3. \A t \in SessionIds, n \in Mailboxes : t # s \/ n # m => mbox'[t][n] = mbox[t][n]
    <2>1. mbox' = mbox \/ \E v : mbox' = [mbox EXCEPT ![s][m] = v]
        BY DEF MailboxNext, MailboxStart, MailboxSucceed, MailboxPartial, MailboxSkip, MailboxThrow, MailboxReport,
           MailboxReportFail, MailboxMerge, MailboxMergeFail, MailboxDispatch, MailboxDispatchFail, MailboxHeartbeat,
           FailStalledMailbox, Record
    <2> QED
        BY <2>1 DEF TypeOK
<1> QED
    BY <1>1, <1>2, <1>3

LEMMA FinFrame ==
    ASSUME TypeOK, NEW s \in SessionIds, NEW f \in Dispatchers, FinNext(s, f)
    PROVE  /\ UNCHANGED << startedOld, mbox, master, tick >>
           /\ status' = status \/ FinWrite(s, f) \/ FinCatch(s, f)
           /\ sess' = sess \/ FinDelete(s, f)
           /\ \A t \in SessionIds : t # s => sess'[t] = sess[t]
           /\ \A t \in SessionIds, g \in Dispatchers : t # s \/ g # f => fin'[t][g] = fin[t][g]
<1>1. /\ UNCHANGED << startedOld, mbox, master, tick >>
      /\ status' = status \/ FinWrite(s, f) \/ FinCatch(s, f)
      /\ sess' = sess \/ FinDelete(s, f)
    BY DEF FinNext, FinRead, FinWrite, FinDelete, FinCatch, FinFail, FailStalledFin
<1>2. \A t \in SessionIds : t # s => sess'[t] = sess[t]
    BY <1>1 DEF FinDelete, DeleteSession, TypeOK
<1>3. \A t \in SessionIds, g \in Dispatchers : t # s \/ g # f => fin'[t][g] = fin[t][g]
    <2>1. \E v : fin' = [fin EXCEPT ![s][f] = v]
        BY DEF FinNext, FinRead, FinWrite, FinDelete, FinCatch, FinFail, FailStalledFin
    <2> QED
        BY <2>1 DEF TypeOK
<1> QED
    BY <1>1, <1>2, <1>3

LEMMA TickFrame ==
    ASSUME TypeOK, TickNext
    PROVE  /\ UNCHANGED << startedOld, mbox >>
           /\ sess' = sess \/ \E s \in SessionIds : TickDeleteSession(s)
           /\ fin' = fin \/ \E s \in SessionIds : TickRedispatch(s)
           /\ \A s \in SessionIds, k \in Kinds : master'[k].todo[s] \subseteq master[k].todo[s]
<1>1. /\ UNCHANGED << startedOld, mbox >>
      /\ sess' = sess \/ \E s \in SessionIds : TickDeleteSession(s)
      /\ fin' = fin \/ \E s \in SessionIds : TickRedispatch(s)
      /\ master' = master \/ AddMaster("sync")
    BY DEF TickNext, TickStart, TickRedispatch, TickFailSource, TickDeleteSession, TickSelectSessionless, TickProbe,
       TickRelease, TickSweepFail, TickDispatch
<1> QED
    BY <1>1, AddMasterTodo DEF Kinds

LEMMA OperatorFrame ==
    ASSUME TypeOK, OperatorNext
    PROVE  /\ UNCHANGED << startedOld, sess, tick >>
           /\ \A s \in SessionIds, k \in Kinds : master'[k].todo[s] \subseteq master[k].todo[s]
           /\ \A s \in SessionIds, m \in Mailboxes : mbox'[s][m] \in { mbox[s][m], "none" }
           /\ \A s \in SessionIds, f \in Dispatchers : fin'[s][f] = fin[s][f] \/ fin'[s][f].pc = "none"
<1>1. UNCHANGED << startedOld, sess, tick >>
    BY DEF OperatorNext, Pause, Resume, TriggerImport, ForceRemoveJobs, ForceResetStatus, ForceAdd
<1>2. CASE ForceRemoveJobs
    BY <1>1, <1>2 DEF ForceRemoveJobs, NoJob, NoTodo, NoFin
<1>3. CASE ~ ForceRemoveJobs
    <2>1. UNCHANGED << mbox, fin >> /\ (master' = master \/ \E k \in Kinds : AddMaster(k))
        BY <1>3 DEF OperatorNext, Pause, Resume, TriggerImport, ForceResetStatus, ForceAdd, Kinds
    <2> QED
        BY <1>1, <2>1, AddMasterTodo
<1> QED
    BY <1>2, <1>3

LEMMA EnvFrame ==
    ASSUME TypeOK, EnvNext
    PROVE  /\ status' = status
           /\ sess' = sess \/ \E s \in SessionIds : SessionAges(s)
           /\ tick' = tick \/ tick' = IdleTick
           /\ \A s \in SessionIds, k \in Kinds : master'[k].todo[s] \subseteq master[k].todo[s]
           /\ \A s \in SessionIds, m \in Mailboxes : mbox'[s][m] \in { mbox[s][m], "stalled" }
           /\ \A s \in SessionIds, f \in Dispatchers : fin'[s][f] = fin[s][f] \/ fin'[s][f].pc = "stalled"
<1>1. CASE WorkerCrash
    <2>1. status' = status /\ sess' = sess /\ tick' = IdleTick
        BY <1>1 DEF WorkerCrash
    <2>2. \A s \in SessionIds, k \in Kinds : master'[k].todo[s] \subseteq master[k].todo[s]
        BY <1>1 DEF WorkerCrash, NoJob, NoTodo
    <2>3. \A s \in SessionIds, m \in Mailboxes : mbox'[s][m] \in { mbox[s][m], "stalled" }
        BY <1>1 DEF WorkerCrash
    <2>4. \A s \in SessionIds, f \in Dispatchers : fin'[s][f] = fin[s][f] \/ fin'[s][f].pc = "stalled"
        BY <1>1 DEF WorkerCrash, NoFin
    <2> QED
        BY <2>1, <2>2, <2>3, <2>4
<1>2. CASE ~ WorkerCrash
    BY <1>2 DEF EnvNext, SessionAges, StartAges
<1> QED
    BY <1>1, <1>2

\* A step of a master job creates a session, enqueues a page of its mailboxes,
\* or touches neither the sessions nor the mailbox jobs.
QuietMaster ==
    /\ UNCHANGED << sess, roster, mbox >>
    /\ \A s \in SessionIds, k \in Kinds : master'[k].todo[s] \subseteq master[k].todo[s]

LEMMA MasterFrame ==
    ASSUME TypeOK, NEW k \in Kinds, MasterNext(k)
    PROVE  /\ UNCHANGED << okBy, fin, tick, force >>
           /\ \A j \in Kinds : j # k => master'[j] = master[j]
           /\ \/ QuietMaster
              \/ \E s \in SessionIds, users \in SUBSET Mailboxes : MasterCreateSession(k, s, users)
              \/ \E s \in SessionIds, page \in SUBSET Mailboxes : MasterEnqueue(k, s, page)
<1> USE JobTypes DEF MasterType
<1>1. UNCHANGED << okBy, fin, tick, force >>
    BY DEF MasterNext, MasterClaim, MasterClaimFail, MasterClaimLost, MasterNoUsers, MasterCreateSession, MasterEnqueue,
       MasterThrow, MasterCatch, MasterCatchFail, FailStalledMaster
<1>2. \A j \in Kinds : j # k => master'[j] = master[j]
    BY DEF MasterNext, MasterClaim, MasterClaimFail, MasterClaimLost, MasterNoUsers, MasterCreateSession, MasterEnqueue,
       MasterThrow, MasterCatch, MasterCatchFail, FailStalledMaster
<1>3. ASSUME \/ MasterClaim(k) \/ MasterClaimFail(k) \/ MasterClaimLost(k) \/ MasterNoUsers(k) \/ MasterThrow(k)
             \/ MasterCatch(k) \/ MasterCatchFail(k) \/ FailStalledMaster(k)
      PROVE  QuietMaster
    <2>1. UNCHANGED << sess, roster, mbox >>
        BY <1>3 DEF MasterClaim, MasterClaimFail, MasterClaimLost, MasterNoUsers, MasterThrow, MasterCatch,
           MasterCatchFail, FailStalledMaster
    <2>2. \A v \in { NoJob, Retried(k) } : \A s \in SessionIds : v.todo[s] = {}
        BY DEF NoJob, QueuedJob, Retried, NoTodo
    <2>3. CASE MasterClaim(k)
        <3>1. master'[k].todo = master[k].todo \/ master'[k] = NoJob
            BY <2>3 DEF MasterClaim
        <3> QED
            BY <1>2, <2>1, <2>2, <3>1 DEF QuietMaster
    <2>4. CASE MasterClaimFail(k)
        BY <2>1, <2>2, <2>4 DEF MasterClaimFail, QuietMaster
    <2>7. CASE MasterClaimLost(k)
        BY <2>1, <2>2, <2>7 DEF MasterClaimLost, QuietMaster
    <2>5. CASE MasterThrow(k)
        BY <2>1, <2>5 DEF MasterThrow, NoTodo, QuietMaster
    <2>6. CASE \/ MasterNoUsers(k) \/ MasterCatch(k) \/ MasterCatchFail(k) \/ FailStalledMaster(k)
        BY <2>1, <2>2, <2>6 DEF MasterNoUsers, MasterCatch, MasterCatchFail, FailStalledMaster, QuietMaster
    <2> QED
        BY <1>3, <2>3, <2>4, <2>5, <2>6, <2>7
<1> QED
    BY <1>1, <1>2, <1>3 DEF MasterNext

LEMMA CreateFrame ==
    ASSUME TypeOK, NEW k \in Kinds, NEW s \in SessionIds, NEW users \in SUBSET Mailboxes,
           MasterCreateSession(k, s, users)
    PROVE  /\ UNCHANGED << status, startedOld, mbox, okBy, fin, tick, force >>
           /\ Free(s) /\ users # {}
           /\ sess'[s].row /\ ~ sess'[s].old /\ sess'[s].total = Cardinality(users)
           /\ sess'[s].completed = 0 /\ sess'[s].failed = 0
           /\ \A t \in SessionIds : t # s => sess'[t] = sess[t]
           /\ master[k].pc = "enumerate" /\ master'[k].pc = "enqueue"
           /\ master'[k].todo[s] = users
           /\ \A t \in SessionIds : t # s => master'[k].todo[t] = master[k].todo[t]
           /\ \A j \in Kinds : j # k => master'[j] = master[j]
    BY JobTypes DEF MasterCreateSession, NoRow, TypeOK, MasterType

LEMMA EnqueueFrame ==
    ASSUME TypeOK, NEW k \in Kinds, NEW s \in SessionIds, NEW page \in SUBSET Mailboxes,
           MasterEnqueue(k, s, page)
    PROVE  /\ UNCHANGED << status, startedOld, sess, roster, okBy, fin, tick, force >>
           /\ master[k].pc = "enqueue"
           /\ page \subseteq master[k].todo[s]
           /\ \A m \in Mailboxes : mbox'[s][m] = IF m \in page THEN "waiting" ELSE mbox[s][m]
           /\ \A t \in SessionIds : t # s => mbox'[t] = mbox[t]
           /\ \A t \in SessionIds : master'[k].todo[t] \subseteq master[k].todo[t]
           /\ master'[k].pc = "enqueue" \/ master'[k] = NoJob
           /\ \A j \in Kinds : j # k => master'[j] = master[j]
<1>1. /\ UNCHANGED << status, startedOld, sess, roster, okBy, fin, tick, force >>
      /\ master[k].pc = "enqueue"
      /\ page \subseteq master[k].todo[s]
      /\ \A m \in Mailboxes : mbox'[s][m] = IF m \in page THEN "waiting" ELSE mbox[s][m]
      /\ \A t \in SessionIds : t # s => mbox'[t] = mbox[t]
    BY DEF MasterEnqueue, TypeOK
<1>2. /\ \A t \in SessionIds : master'[k].todo[t] \subseteq master[k].todo[t]
      /\ master'[k].pc = "enqueue" \/ master'[k] = NoJob
      /\ \A j \in Kinds : j # k => master'[j] = master[j]
    BY JobTypes DEF MasterEnqueue, NoJob, NoTodo, MasterType
<1> QED
    BY <1>1, <1>2

-----------------------------------------------------------------------------
(* Work is only ever made for a session that has just been created         *)

\* The mailbox m of the session s has a job, or a master is about to add one.
HasWork(s, m) == mbox[s][m] \notin Resting \/ \E k \in Kinds : m \in master[k].todo[s]

NoNewWork == \A s \in SessionIds, m \in Mailboxes : HasWork(s, m)' => HasWork(s, m)

LEMMA MailboxWork ==
    ASSUME TypeOK, NEW s \in SessionIds, NEW m \in Mailboxes, MailboxNext(s, m)
    PROVE  NoNewWork
<1>1. mbox'[s][m] \notin Resting => mbox[s][m] \notin Resting
    <2>1. CASE FailStalledMailbox(s, m)
        BY <2>1 DEF FailStalledMailbox, TypeOK, Resting
    <2>2. CASE ~ FailStalledMailbox(s, m)
        BY <2>2 DEF Resting, MailboxNext, MailboxStart, MailboxSucceed, MailboxPartial, MailboxSkip, MailboxThrow,
           MailboxReport, MailboxReportFail, MailboxMerge, MailboxMergeFail, MailboxDispatch, MailboxDispatchFail,
           MailboxHeartbeat, MailboxLive
    <2> QED
        BY <2>1, <2>2
<1> QED
    BY <1>1, MailboxFrame DEF NoNewWork, HasWork

LEMMA OtherWork ==
    ASSUME TypeOK,
           \/ \E s \in SessionIds, f \in Dispatchers : FinNext(s, f)
           \/ TickNext \/ OperatorNext \/ EnvNext
           \/ UNCHANGED vars
    PROVE  NoNewWork
<1>1. ASSUME NEW s \in SessionIds, NEW f \in Dispatchers, FinNext(s, f)
      PROVE  NoNewWork
    BY <1>1, FinFrame DEF NoNewWork, HasWork
<1>2. CASE TickNext
    BY <1>2, TickFrame DEF NoNewWork, HasWork
<1>3. CASE OperatorNext
    BY <1>3, OperatorFrame DEF NoNewWork, HasWork, Resting
<1>4. CASE EnvNext
    BY <1>4, EnvFrame DEF NoNewWork, HasWork, Resting
<1>5. CASE UNCHANGED vars
    BY <1>5 DEF NoNewWork, HasWork, vars
<1> QED
    BY <1>1, <1>2, <1>3, <1>4, <1>5

LEMMA MasterWork ==
    ASSUME TypeOK, NEW k \in Kinds, MasterNext(k)
    PROVE  NoNewWork \/ \E s \in SessionIds, users \in SUBSET Mailboxes : MasterCreateSession(k, s, users)
<1>1. CASE QuietMaster
    BY <1>1 DEF QuietMaster, NoNewWork, HasWork
<1>2. ASSUME NEW s \in SessionIds, NEW page \in SUBSET Mailboxes, MasterEnqueue(k, s, page)
      PROVE  NoNewWork
    <2> SUFFICES ASSUME NEW t \in SessionIds, NEW m \in Mailboxes, HasWork(t, m)'
                 PROVE  HasWork(t, m)
        BY DEF NoNewWork
    <2>1. CASE t = s /\ m \in page
        BY <1>2, <2>1, EnqueueFrame DEF HasWork
    <2>2. CASE ~ (t = s /\ m \in page)
        BY <1>2, <2>2, EnqueueFrame DEF HasWork
    <2> QED
        BY <2>1, <2>2
<1> QED
    BY <1>1, <1>2, MasterFrame

\* A session being created had no work, and gets it for nobody else.
LEMMA CreateWork ==
    ASSUME TypeOK, NEW k \in Kinds, NEW s \in SessionIds, NEW users \in SUBSET Mailboxes,
           MasterCreateSession(k, s, users)
    PROVE  \A t \in SessionIds, m \in Mailboxes : t # s /\ HasWork(t, m)' => HasWork(t, m)
BY CreateFrame DEF HasWork

-----------------------------------------------------------------------------
(* The sweep condemns only sessions whose work is lost                     *)

\* A session that the sweep has in hand, or that its next tick would pick up.
Swept == tick.redo \cup tick.stuck \cup tick.doomed
Condemned(s) == (sess[s].row /\ sess[s].old) \/ s \in Swept

\* No mailbox of a condemned session is being archived or still to be.  It is
\* inductive only because a waiting job does not outlast the threshold: that
\* would be the fault "starve".
StaleIdle == \A s \in SessionIds : Condemned(s) => \A m \in Mailboxes : ~ HasWork(s, m)

\* Only a master that is enqueuing has mailboxes left to enqueue.
TodoEnqueue == \A k \in Kinds, s \in SessionIds : master[k].todo[s] # {} => master[k].pc = "enqueue"

LEMMA InitWork == Init => StaleIdle /\ TodoEnqueue
<1> SUFFICES ASSUME Init PROVE StaleIdle /\ TodoEnqueue
    OBVIOUS
<1>1. \A s \in SessionIds : ~ Condemned(s)
    BY DEF Init, Condemned, Swept, NoRow, IdleTick
<1>2. \A k \in Kinds, s \in SessionIds : master[k].todo[s] = {}
    BY DEF Init, NoJob, QueuedJob, NoTodo
<1> QED
    BY <1>1, <1>2 DEF StaleIdle, TodoEnqueue

LEMMA AddMasterEnqueue ==
    ASSUME TypeOK, TodoEnqueue, NEW k \in Kinds, AddMaster(k)
    PROVE  TodoEnqueue'
<1>1. \A s \in SessionIds : QueuedJob(1).todo[s] = {}
    BY DEF QueuedJob, NoTodo
<1>2. \A j \in Kinds : master'[j] = master[j] \/ master'[j] = QueuedJob(1)
    BY JobTypes DEF AddMaster
<1> QED
    BY <1>1, <1>2 DEF TodoEnqueue

LEMMA MasterTodoEnqueue ==
    ASSUME TypeOK, TodoEnqueue, NEW k \in Kinds, MasterNext(k)
    PROVE  TodoEnqueue'
<1> USE JobTypes DEF MasterType
<1> SUFFICES \A s \in SessionIds : master'[k].todo[s] # {} => master'[k].pc = "enqueue"
    BY MasterFrame DEF TodoEnqueue
<1>1. \A v \in { NoJob, Retried(k) } : \A s \in SessionIds : v.todo[s] = {}
    BY DEF NoJob, QueuedJob, Retried, NoTodo
<1>2. CASE MasterClaim(k)
    <2>1. master'[k].todo = master[k].todo \/ master'[k] = NoJob
        BY <1>2 DEF MasterClaim
    <2>2. \A s \in SessionIds : master[k].todo[s] = {}
        BY <1>2 DEF MasterClaim, TodoEnqueue
    <2> QED
        BY <1>1, <2>1, <2>2
<1>3. CASE MasterClaimFail(k)
    <2>1. master'[k].todo = master[k].todo \/ master'[k] = Retried(k)
        BY <1>3 DEF MasterClaimFail
    <2>2. \A s \in SessionIds : master[k].todo[s] = {}
        BY <1>3 DEF MasterClaimFail, TodoEnqueue
    <2> QED
        BY <1>1, <2>1, <2>2
<1>8. CASE MasterClaimLost(k)
    <2>1. master'[k].todo = master[k].todo \/ master'[k] = Retried(k)
        BY <1>8 DEF MasterClaimLost
    <2>2. \A s \in SessionIds : master[k].todo[s] = {}
        BY <1>8 DEF MasterClaimLost, TodoEnqueue
    <2> QED
        BY <1>1, <2>1, <2>2
<1>4. CASE MasterThrow(k)
    BY <1>4 DEF MasterThrow, NoTodo
<1>5. CASE MasterNoUsers(k) \/ MasterCatch(k) \/ MasterCatchFail(k) \/ FailStalledMaster(k)
    BY <1>1, <1>5 DEF MasterNoUsers, MasterCatch, MasterCatchFail, FailStalledMaster
<1>6. ASSUME NEW s \in SessionIds, NEW users \in SUBSET Mailboxes, MasterCreateSession(k, s, users)
      PROVE  master'[k].pc = "enqueue"
    BY <1>6, CreateFrame
<1>7. ASSUME NEW s \in SessionIds, NEW page \in SUBSET Mailboxes, MasterEnqueue(k, s, page)
      PROVE  master'[k].pc = "enqueue" \/ master'[k] = NoJob
    BY <1>7, EnqueueFrame
<1> QED
    BY <1>1, <1>2, <1>3, <1>4, <1>5, <1>6, <1>7, <1>8 DEF MasterNext

LEMMA StepTodoEnqueue ==
    ASSUME TypeOK, TodoEnqueue, [Next]_vars
    PROVE  TodoEnqueue'
<1>1. ASSUME NEW k \in Kinds, MasterNext(k)
      PROVE  TodoEnqueue'
    BY <1>1, MasterTodoEnqueue
<1>2. ASSUME NEW s \in SessionIds, NEW m \in Mailboxes, MailboxNext(s, m)
      PROVE  TodoEnqueue'
    BY <1>2, MailboxFrame DEF TodoEnqueue
<1>3. ASSUME NEW s \in SessionIds, NEW f \in Dispatchers, FinNext(s, f)
      PROVE  TodoEnqueue'
    BY <1>3, FinFrame DEF TodoEnqueue
<1>4. CASE TickNext
    <2>1. master' = master \/ AddMaster("sync")
        BY <1>4 DEF TickNext, TickStart, TickRedispatch, TickFailSource, TickDeleteSession,
           TickSelectSessionless, TickProbe, TickRelease, TickSweepFail, TickDispatch
    <2> QED
        BY <2>1, AddMasterEnqueue DEF TodoEnqueue, Kinds
<1>5. CASE OperatorNext
    <2>1. CASE ForceRemoveJobs
        BY <2>1 DEF ForceRemoveJobs, TodoEnqueue, NoJob, NoTodo
    <2>2. CASE ~ ForceRemoveJobs
        <3>1. master' = master \/ \E k \in Kinds : AddMaster(k)
            BY <1>5, <2>2 DEF OperatorNext, Pause, Resume, TriggerImport, ForceResetStatus, ForceAdd, Kinds
        <3> QED
            BY <3>1, AddMasterEnqueue DEF TodoEnqueue
    <2> QED
        BY <2>1, <2>2
<1>6. CASE EnvNext
    <2>1. CASE WorkerCrash
        BY <2>1 DEF WorkerCrash, TodoEnqueue, NoJob, NoTodo
    <2>2. CASE ~ WorkerCrash
        BY <1>6, <2>2 DEF EnvNext, SessionAges, StartAges, TodoEnqueue
    <2> QED
        BY <2>1, <2>2
<1>7. CASE UNCHANGED vars
    BY <1>7 DEF vars, TodoEnqueue
<1> QED
    BY <1>1, <1>2, <1>3, <1>4, <1>5, <1>6, <1>7 DEF Next

\* A step that makes no work and condemns nothing new.
LEMMA SameStale ==
    ASSUME StaleIdle, NoNewWork, \A s \in SessionIds : Condemned(s)' => Condemned(s)
    PROVE  StaleIdle'
BY DEF StaleIdle, NoNewWork

\* What a mailbox job reports or beats is activity.
LEMMA MailboxActive ==
    ASSUME TypeOK, NEW s \in SessionIds, NEW m \in Mailboxes, MailboxNext(s, m)
    PROVE  sess'[s].old => sess' = sess
<1>1. \A c \in BOOLEAN : Counted(sess[s], c).old = FALSE
    BY DEF Counted
<1>2. \A c \in BOOLEAN : [sess EXCEPT ![s] = Counted(sess[s], c)][s] = Counted(sess[s], c)
    BY DEF TypeOK
<1>3. ASSUME NEW c \in BOOLEAN, NEW a, NEW b, Record(s, m, c, a, b)
      PROVE  sess' = sess \/ sess' = [sess EXCEPT ![s] = Counted(sess[s], c)]
    BY <1>3 DEF Record
<1>4. CASE MailboxSucceed(s, m) \/ MailboxPartial(s, m) \/ MailboxSkip(s, m) \/ MailboxReport(s, m)
    BY <1>1, <1>2, <1>3, <1>4 DEF MailboxSucceed, MailboxPartial, MailboxSkip, MailboxReport
<1>5. CASE MailboxHeartbeat(s, m)
    BY <1>5 DEF MailboxHeartbeat, TypeOK, SessionRow
<1>6. CASE ~ (\/ MailboxSucceed(s, m) \/ MailboxPartial(s, m) \/ MailboxSkip(s, m) \/ MailboxReport(s, m)
              \/ MailboxHeartbeat(s, m))
    BY <1>6 DEF MailboxNext, MailboxStart, MailboxThrow, MailboxReportFail, MailboxMerge, MailboxMergeFail,
       MailboxDispatch, MailboxDispatchFail, FailStalledMailbox
<1> QED
    BY <1>4, <1>5, <1>6

LEMMA MailboxStale ==
    ASSUME TypeOK, NEW s \in SessionIds, NEW m \in Mailboxes, MailboxNext(s, m)
    PROVE  \A t \in SessionIds : Condemned(t)' => Condemned(t)
BY MailboxActive, MailboxFrame DEF Condemned, Swept

LEMMA FinStale ==
    ASSUME TypeOK, NEW s \in SessionIds, NEW f \in Dispatchers, FinNext(s, f)
    PROVE  \A t \in SessionIds : Condemned(t)' => Condemned(t)
<1>1. sess'[s] = sess[s] \/ ~ sess'[s].row
    BY FinFrame DEF FinDelete, DeleteSession, NoRow, TypeOK
<1> QED
    BY <1>1, FinFrame DEF Condemned, Swept

\* What each step of the tick does to the sessions it has in hand.
LEMMA TickSets ==
    ASSUME TypeOK
    PROVE  /\ TickStart => /\ tick'.pc = "sweep" /\ tick'.doomed = {} /\ tick'.redo \cap tick'.stuck = {}
                           /\ \A s \in tick'.redo \cup tick'.stuck :
                                 s \in SessionIds /\ sess[s].row /\ sess[s].old
           /\ \A s \in SessionIds : TickRedispatch(s) =>
                 /\ tick.pc = "sweep" /\ tick'.pc = "sweep" /\ s \in tick.redo
                 /\ tick'.redo = tick.redo \ {s} /\ tick'.stuck = tick.stuck /\ tick'.doomed = tick.doomed
           /\ \A s \in SessionIds : TickFailSource(s) =>
                 /\ tick.pc = "sweep" /\ tick'.pc = "delete" /\ s \in tick.stuck
                 /\ tick'.redo = tick.redo /\ tick'.stuck = tick.stuck \ {s} /\ tick'.doomed = {s}
           /\ \A s \in SessionIds : TickDeleteSession(s) =>
                 /\ tick.pc = "delete" /\ tick'.pc = "sweep" /\ s \in tick.doomed
                 /\ tick'.redo = tick.redo /\ tick'.stuck = tick.stuck /\ tick'.doomed = {}
           /\ TickSelectSessionless \/ TickProbe \/ TickRelease =>
                 /\ tick.pc \in { "sweep", "probe", "free" } /\ tick'.pc \in { "probe", "free", "dispatch" }
                 /\ tick'.redo = tick.redo /\ tick'.stuck = tick.stuck /\ tick'.doomed = tick.doomed
           /\ TickSweepFail \/ TickDispatch =>
                 /\ tick'.pc \in { "dispatch", "idle" }
                 /\ tick'.redo = {} /\ tick'.stuck = {} /\ tick'.doomed = {}
<1> DEFINE T == [ pc : TickPc, redo : SUBSET SessionIds, stuck : SUBSET SessionIds, doomed : SUBSET SessionIds ]
<1>1. tick \in T
    BY DEF TypeOK
<1> HIDE DEF T
<1>2. TickStart => /\ tick'.pc = "sweep" /\ tick'.doomed = {} /\ tick'.redo \cap tick'.stuck = {}
                   /\ \A s \in tick'.redo \cup tick'.stuck : s \in SessionIds /\ sess[s].row /\ sess[s].old
    BY DEF TickStart
<1>3. ASSUME NEW s \in SessionIds, TickRedispatch(s)
      PROVE  /\ tick.pc = "sweep" /\ tick'.pc = "sweep" /\ s \in tick.redo
             /\ tick'.redo = tick.redo \ {s} /\ tick'.stuck = tick.stuck /\ tick'.doomed = tick.doomed
    <2>1. tick.pc = "sweep" /\ s \in tick.redo /\ tick' = [tick EXCEPT !.redo = tick.redo \ {s}]
        BY <1>3 DEF TickRedispatch
    <2> QED
        BY <1>1, <2>1 DEF T
<1>4. ASSUME NEW s \in SessionIds, TickFailSource(s)
      PROVE  /\ tick.pc = "sweep" /\ tick'.pc = "delete" /\ s \in tick.stuck
             /\ tick'.redo = tick.redo /\ tick'.stuck = tick.stuck \ {s} /\ tick'.doomed = {s}
    <2>1. /\ tick.pc = "sweep" /\ s \in tick.stuck
          /\ tick' = [tick EXCEPT !.pc = "delete", !.stuck = tick.stuck \ {s}, !.doomed = {s}]
        BY <1>4 DEF TickFailSource
    <2> QED
        BY <1>1, <2>1 DEF T
<1>5. ASSUME NEW s \in SessionIds, TickDeleteSession(s)
      PROVE  /\ tick.pc = "delete" /\ tick'.pc = "sweep" /\ s \in tick.doomed
             /\ tick'.redo = tick.redo /\ tick'.stuck = tick.stuck /\ tick'.doomed = {}
    <2>1. /\ tick.pc = "delete" /\ s \in tick.doomed
          /\ tick' = [tick EXCEPT !.pc = "sweep", !.doomed = {}]
        BY <1>5 DEF TickDeleteSession
    <2> QED
        BY <1>1, <2>1 DEF T
<1>6. TickSelectSessionless \/ TickProbe \/ TickRelease =>
          /\ tick.pc \in { "sweep", "probe", "free" } /\ tick'.pc \in { "probe", "free", "dispatch" }
          /\ tick'.redo = tick.redo /\ tick'.stuck = tick.stuck /\ tick'.doomed = tick.doomed
    <2>1. TickSelectSessionless \/ TickProbe \/ TickRelease =>
              /\ tick.pc \in { "sweep", "probe", "free" }
              /\ \E v \in { "probe", "free", "dispatch" } : tick' = [tick EXCEPT !.pc = v]
        BY DEF TickSelectSessionless, TickProbe, TickRelease
    <2> QED
        BY <1>1, <2>1 DEF T
<1>7. TickSweepFail \/ TickDispatch =>
          /\ tick'.pc \in { "dispatch", "idle" }
          /\ tick'.redo = {} /\ tick'.stuck = {} /\ tick'.doomed = {}
    BY DEF TickSweepFail, TickDispatch, IdleTick
<1> QED
    BY <1>2, <1>3, <1>4, <1>5, <1>6, <1>7

LEMMA TickStale ==
    ASSUME TypeOK, TickNext
    PROVE  \A t \in SessionIds : Condemned(t)' => Condemned(t)
<1>1. \A t \in SessionIds : sess'[t] = sess[t] \/ ~ sess'[t].row
    BY TickFrame DEF TickDeleteSession, DeleteSession, NoRow, TypeOK
<1>2. \A t \in SessionIds : t \in Swept' => Condemned(t)
    <2>1. CASE TickStart
        BY <2>1, TickSets DEF Swept, Condemned
    <2>2. CASE ~ TickStart
        BY <2>2, TickSets DEF TickNext, Swept, Condemned
    <2> QED
        BY <2>1, <2>2
<1> QED
    BY <1>1, <1>2 DEF Condemned

LEMMA StepStale ==
    ASSUME TypeOK, TodoEnqueue, StaleIdle, [Next]_vars, "starve" \notin Env
    PROVE  StaleIdle'
<1>1. ASSUME NEW k \in Kinds, MasterNext(k)
      PROVE  StaleIdle'
    <2>1. CASE \E s \in SessionIds, users \in SUBSET Mailboxes : MasterCreateSession(k, s, users)
        <3>1. PICK s \in SessionIds, users \in SUBSET Mailboxes : MasterCreateSession(k, s, users)
            BY <2>1
        <3>2. ~ Condemned(s)'
            BY <3>1, CreateFrame DEF Free, Condemned, Swept
        <3>3. \A t \in SessionIds : t # s => (Condemned(t)' <=> Condemned(t))
            BY <3>1, CreateFrame DEF Condemned, Swept
        <3> QED
            BY <3>1, <3>2, <3>3, CreateWork DEF StaleIdle
    <2>2. CASE ~ \E s \in SessionIds, users \in SUBSET Mailboxes : MasterCreateSession(k, s, users)
        <3>1. UNCHANGED << sess, tick >>
            BY <1>1, <2>2, MasterFrame, EnqueueFrame DEF QuietMaster
        <3>2. \A s \in SessionIds : Condemned(s)' => Condemned(s)
            BY <3>1 DEF Condemned, Swept
        <3> QED
            BY <1>1, <2>2, <3>2, MasterWork, SameStale
    <2> QED
        BY <2>1, <2>2
<1>2. ASSUME NEW s \in SessionIds, NEW m \in Mailboxes, MailboxNext(s, m)
      PROVE  StaleIdle'
    BY <1>2, MailboxWork, MailboxStale, SameStale
<1>3. ASSUME NEW s \in SessionIds, NEW f \in Dispatchers, FinNext(s, f)
      PROVE  StaleIdle'
    BY <1>3, OtherWork, FinStale, SameStale
<1>4. CASE TickNext
    BY <1>4, OtherWork, TickStale, SameStale
<1>5. CASE OperatorNext
    <2>1. \A s \in SessionIds : Condemned(s)' => Condemned(s)
        BY <1>5, OperatorFrame DEF Condemned, Swept
    <2> QED
        BY <1>5, <2>1, OtherWork, SameStale
<1>6. CASE EnvNext
    <2>1. NoNewWork
        BY <1>6, OtherWork
    <2>2. CASE sess' = sess
        <3>1. Swept' \subseteq Swept
            BY <1>6, EnvFrame DEF Swept, IdleTick
        <3> QED
            BY <2>1, <2>2, <3>1, SameStale DEF Condemned
    <2>3. ASSUME NEW s \in SessionIds, SessionAges(s)
          PROVE  StaleIdle'
        <3>1. \A m \in Mailboxes : ~ HasWork(s, m)
            <4>1. \A m \in Mailboxes : mbox[s][m] # "waiting" /\ ~ MailboxLive(s, m)
                BY <2>3 DEF SessionAges, Spend
            <4>2. \A k \in Kinds : master[k].todo[s] = {}
                BY <2>3 DEF SessionAges, TodoEnqueue
            <4>3. \A m \in Mailboxes : mbox[s][m] \in MailboxPc
                BY DEF TypeOK
            <4> QED
                BY <4>1, <4>2, <4>3 DEF HasWork, MailboxLive, MailboxPc, Resting
        <3>2. \A t \in SessionIds : t # s /\ Condemned(t)' => Condemned(t)
            BY <2>3 DEF SessionAges, Condemned, Swept, TypeOK
        <3> QED
            BY <2>1, <3>1, <3>2 DEF StaleIdle, NoNewWork
    <2> QED
        BY <1>6, <2>2, <2>3, EnvFrame
<1>7. CASE UNCHANGED vars
    <2>1. \A s \in SessionIds : Condemned(s)' => Condemned(s)
        BY <1>7 DEF vars, Condemned, Swept
    <2> QED
        BY <1>7, <2>1, OtherWork, SameStale
<1> QED
    BY <1>1, <1>2, <1>3, <1>4, <1>5, <1>6, <1>7 DEF Next

LEMMA WorkInvariant == "starve" \notin Env => (Spec => [](StaleIdle /\ TodoEnqueue))
<1> SUFFICES ASSUME "starve" \notin Env PROVE Spec => [](StaleIdle /\ TodoEnqueue)
    OBVIOUS
<1>1. TypeOK /\ StaleIdle /\ TodoEnqueue /\ [Next]_vars => (StaleIdle /\ TodoEnqueue)'
    BY StepStale, StepTodoEnqueue
<1> QED
    BY <1>1, InitWork, TypeCorrect, PTL DEF Spec

\* The sweep fails and deletes only sessions none of whose mailboxes is being
\* archived or still to be, as long as no job waits in the queue for longer
\* than the sweep's threshold.  Every other fault and command may happen.
THEOREM SweptIsDeadAlways == "starve" \notin Env => (Spec => []SweptIsDead)
<1> SUFFICES ASSUME "starve" \notin Env PROVE Spec => []SweptIsDead
    OBVIOUS
<1>1. TypeOK /\ StaleIdle => SweptIsDead
    <2> SUFFICES ASSUME TypeOK, StaleIdle, NEW s \in tick.stuck \cup tick.doomed,
                        NEW m \in Mailboxes, mbox[s][m] \in { "waiting", "running" }
                 PROVE  FALSE
        BY DEF SweptIsDead, Working
    <2>1. s \in SessionIds /\ Condemned(s)
        BY DEF TypeOK, Condemned, Swept
    <2> QED
        BY <2>1 DEF StaleIdle, HasWork, Resting
<1> QED
    BY <1>1, WorkInvariant, TypeCorrect, PTL

-----------------------------------------------------------------------------
(* Every mailbox is counted, and none twice                                *)

\* Mailboxes whose result is still to be counted.
Pending(s) == { m \in Mailboxes : \/ mbox[s][m] \in { "waiting", "running", "report" }
                                  \/ \E k \in Kinds : m \in master[k].todo[s] }

\* What a session was told and what it is still to be told is no more than
\* its total, and nobody has a result for a session that is gone.
CountInv ==
    \A s \in SessionIds : sess[s].completed + sess[s].failed + Cardinality(Pending(s)) <= sess[s].total
PendingRow == \A s \in SessionIds : Pending(s) # {} => sess[s].row

LEMMA PendingFinite ==
    ASSUME NEW s \in SessionIds
    PROVE  IsFiniteSet(Pending(s)) /\ Cardinality(Pending(s)) \in Nat
<1>1. Pending(s) \subseteq Mailboxes
    BY DEF Pending
<1>2. IsFiniteSet(Pending(s))
    BY <1>1, ConstantsAssumption, FS_Subset
<1> QED
    BY <1>2, FS_CardinalityType

\* A session that every mailbox reported to waits for no result.
LEMMA ReportedNotPending ==
    ASSUME TypeOK, CountInv, NEW s \in SessionIds, AllReported(sess[s])
    PROVE  Pending(s) = {}
<1>1. Cardinality(Pending(s)) = 0
    <2>1. sess[s].completed \in Nat /\ sess[s].failed \in Nat /\ sess[s].total \in Nat
        BY DEF TypeOK, SessionRow
    <2>2. sess[s].completed + sess[s].failed + Cardinality(Pending(s)) <= sess[s].total
        BY DEF CountInv
    <2>3. sess[s].completed + sess[s].failed >= sess[s].total
        BY DEF AllReported
    <2>4. Cardinality(Pending(s)) \in Nat
        BY PendingFinite
    <2> QED
        BY <2>1, <2>2, <2>3, <2>4
<1> QED
    BY <1>1, PendingFinite, FS_EmptySet

\* A step that adds no result to come, and counts none; it may delete a
\* session that waits for none.
LEMMA CountKeeps ==
    ASSUME TypeOK, CountInv, PendingRow,
           \A s \in SessionIds : Pending(s)' \subseteq Pending(s),
           \A s \in SessionIds :
              \/ /\ sess'[s].row = sess[s].row
                 /\ sess'[s].total = sess[s].total
                 /\ sess'[s].completed = sess[s].completed
                 /\ sess'[s].failed = sess[s].failed
              \/ sess'[s] = NoRow /\ Pending(s) = {}
    PROVE  (CountInv /\ PendingRow)'
<1>1. PendingRow'
    BY DEF PendingRow
<1>2. CountInv'
    <2> SUFFICES ASSUME NEW s \in SessionIds
                 PROVE  sess'[s].completed + sess'[s].failed + Cardinality(Pending(s)') <= sess'[s].total
        BY DEF CountInv
    <2>1. /\ Cardinality(Pending(s)) \in Nat /\ Cardinality(Pending(s)') \in Nat
          /\ Cardinality(Pending(s)') <= Cardinality(Pending(s))
        BY PendingFinite, FS_Subset, FS_CardinalityType
    <2>2. sess[s].completed + sess[s].failed + Cardinality(Pending(s)) <= sess[s].total
        BY DEF CountInv
    <2>3. CASE sess'[s] = NoRow /\ Pending(s) = {}
        BY <2>1, <2>3, FS_EmptySet DEF NoRow
    <2>4. CASE ~ (sess'[s] = NoRow /\ Pending(s) = {})
        BY <2>1, <2>2, <2>4 DEF TypeOK, SessionRow
    <2> QED
        BY <2>3, <2>4
<1> QED
    BY <1>1, <1>2

LEMMA RecordCount ==
    ASSUME IInv, CountInv, PendingRow, NEW s \in SessionIds, NEW m \in Mailboxes, NEW c \in BOOLEAN,
           NEW last \in { "mergeLast", "dispatch", "redispatch" }, NEW other \in { "merge", "none" },
           mbox[s][m] \in { "running", "report" }, Record(s, m, c, last, other)
    PROVE  (CountInv /\ PendingRow)'
<1> TypeOK
    BY DEF IInv
<1>1. PICK v \in { "mergeLast", "dispatch", "redispatch", "merge", "none" } : mbox' = [mbox EXCEPT ![s][m] = v]
    BY DEF Record
<1>2. master' = master
    BY DEF Record
<1>3. /\ \A t \in SessionIds : t # s => Pending(t)' = Pending(t)
      /\ Pending(s)' \subseteq Pending(s)
    BY <1>1, <1>2 DEF Pending, TypeOK
<1>4. m \in Pending(s)
    BY DEF Pending
<1>5. sess[s].row
    BY <1>4 DEF PendingRow
<1>6. sess' = [sess EXCEPT ![s] = Counted(sess[s], c)]
    BY <1>5 DEF Record
<1>7. /\ sess'[s].row /\ sess'[s].total = sess[s].total
      /\ sess'[s].completed + sess'[s].failed = sess[s].completed + sess[s].failed + 1
      /\ \A t \in SessionIds : t # s => sess'[t] = sess[t]
    BY <1>6 DEF Counted, TypeOK, SessionRow
<1>8. CASE m \in Pending(s)'
    \* A master would have the running mailbox still to enqueue.
    <2>1. PICK k \in Kinds : m \in master[k].todo[s]
        BY <1>1, <1>2, <1>8 DEF Pending, TypeOK
    <2> QED
        BY <1>5, <2>1 DEF IInv, TodoFresh
<1>9. CASE m \notin Pending(s)'
    <2>1. Pending(s)' \subseteq Pending(s) \ {m}
        BY <1>3, <1>9
    <2>2. Cardinality(Pending(s)') <= Cardinality(Pending(s)) - 1 /\ Cardinality(Pending(s)') \in Nat
        BY <1>4, <2>1, PendingFinite, FS_RemoveElement, FS_Subset, FS_CardinalityType
    <2>3. sess[s].completed + sess[s].failed + Cardinality(Pending(s)) <= sess[s].total
        BY <1>5 DEF CountInv
    <2>4. sess'[s].completed + sess'[s].failed + Cardinality(Pending(s)') <= sess'[s].total
        BY <1>7, <2>2, <2>3, PendingFinite DEF TypeOK, SessionRow
    <2>5. CountInv'
        BY <1>3, <1>7, <2>4 DEF CountInv
    <2>6. PendingRow'
        BY <1>3, <1>7 DEF PendingRow
    <2> QED
        BY <2>5, <2>6
<1> QED
    BY <1>8, <1>9

LEMMA StepCount ==
    ASSUME IInv, CountInv, PendingRow, StaleIdle, [Next]_vars, Env \cap { "mergeFail", "dispatchFail" } = {}
    PROVE  (CountInv /\ PendingRow)'
<1> TypeOK
    BY DEF IInv
<1> DEFINE Kept(s) == /\ sess'[s].row = sess[s].row
                      /\ sess'[s].total = sess[s].total
                      /\ sess'[s].completed = sess[s].completed
                      /\ sess'[s].failed = sess[s].failed
<1>1. ASSUME NEW k \in Kinds, MasterNext(k)
      PROVE  (CountInv /\ PendingRow)'
    <2>1. ASSUME NEW s \in SessionIds, NEW users \in SUBSET Mailboxes, MasterCreateSession(k, s, users)
          PROVE  (CountInv /\ PendingRow)'
        <3>1. \A t \in SessionIds : t # s => sess'[t] = sess[t] /\ Pending(t)' = Pending(t)
            BY <2>1, CreateFrame DEF Pending
        <3>2. Pending(s)' = users
            BY <2>1, CreateFrame DEF Free, Pending
        <3>3. /\ sess'[s].row /\ sess'[s].completed = 0 /\ sess'[s].failed = 0
              /\ sess'[s].total = Cardinality(users) /\ Cardinality(users) \in Nat
            BY <2>1, CreateFrame, ConstantsAssumption, FS_Subset, FS_CardinalityType
        <3>4. CountInv'
            BY <3>1, <3>2, <3>3 DEF CountInv
        <3>5. PendingRow'
            BY <3>1, <3>3 DEF PendingRow
        <3> QED
            BY <3>4, <3>5
    <2>2. ASSUME NEW s \in SessionIds, NEW page \in SUBSET Mailboxes, MasterEnqueue(k, s, page)
          PROVE  (CountInv /\ PendingRow)'
        <3>1. sess' = sess
            BY <2>2, EnqueueFrame
        <3>2. \A t \in SessionIds : t # s => Pending(t)' \subseteq Pending(t)
            BY <2>2, EnqueueFrame DEF Pending
        <3>3. Pending(s)' \subseteq Pending(s)
            BY <2>2, EnqueueFrame DEF Pending
        <3> QED
            BY <3>1, <3>2, <3>3, CountKeeps
    <2>3. CASE QuietMaster
        BY <2>3, CountKeeps DEF QuietMaster, Pending
    <2> QED
        BY <1>1, <2>1, <2>2, <2>3, MasterFrame
<1>2. ASSUME NEW s \in SessionIds, NEW m \in Mailboxes, MailboxNext(s, m)
      PROVE  (CountInv /\ PendingRow)'
    <2>1. CASE MailboxSucceed(s, m) \/ MailboxPartial(s, m) \/ MailboxSkip(s, m) \/ MailboxReport(s, m)
        BY <2>1, RecordCount DEF MailboxSucceed, MailboxPartial, MailboxSkip, MailboxReport
    <2>2. CASE ~ (MailboxSucceed(s, m) \/ MailboxPartial(s, m) \/ MailboxSkip(s, m) \/ MailboxReport(s, m))
        <3>1. \A t \in SessionIds : Kept(t)
            <4>1. sess' = sess \/ sess' = [sess EXCEPT ![s].old = FALSE]
                BY <1>2, <2>2 DEF MailboxNext, MailboxStart, MailboxThrow, MailboxReportFail, MailboxMerge,
                   MailboxMergeFail, MailboxDispatch, MailboxDispatchFail, MailboxHeartbeat, FailStalledMailbox
            <4> QED
                BY <4>1 DEF TypeOK, SessionRow
        <3>2. mbox'[s][m] \in { "waiting", "running", "report" } => mbox[s][m] \in { "waiting", "running", "report" }
            BY <1>2, <2>2 DEF MailboxNext, MailboxStart, MailboxThrow, MailboxReportFail, MailboxMerge,
               MailboxMergeFail, MailboxDispatch, MailboxDispatchFail, MailboxHeartbeat, FailStalledMailbox,
               Spend, TypeOK
        <3>3. \A t \in SessionIds : Pending(t)' \subseteq Pending(t)
            BY <1>2, <3>2, MailboxFrame DEF Pending
        <3> QED
            BY <3>1, <3>3, CountKeeps
    <2> QED
        BY <2>1, <2>2
<1>3. ASSUME NEW s \in SessionIds, NEW f \in Dispatchers, FinNext(s, f)
      PROVE  (CountInv /\ PendingRow)'
    <2>1. \A t \in SessionIds : Pending(t)' = Pending(t)
        BY <1>3, FinFrame DEF Pending
    <2>2. CASE sess' = sess
        BY <2>1, <2>2, CountKeeps
    <2>3. CASE FinDelete(s, f)
        <3>1. Pending(s) = {}
            <4>1. CASE sess[s].row
                <5>1. AllReported(sess[s])
                    BY <2>3, <4>1 DEF FinDelete, IInv, FinalizersComeLast
                <5> QED
                    BY <4>1, <5>1, ReportedNotPending
            <4> QED
                BY <4>1 DEF PendingRow
        <3>2. sess'[s] = NoRow
            BY <2>3 DEF FinDelete, DeleteSession, TypeOK
        <3> QED
            BY <1>3, <2>1, <3>1, <3>2, FinFrame, CountKeeps
    <2> QED
        BY <1>3, <2>2, <2>3, FinFrame
<1>4. CASE TickNext
    <2>1. \A t \in SessionIds : Pending(t)' \subseteq Pending(t)
        BY <1>4, TickFrame DEF Pending
    <2>2. CASE sess' = sess
        BY <2>1, <2>2, CountKeeps
    <2>3. ASSUME NEW s \in SessionIds, TickDeleteSession(s)
          PROVE  (CountInv /\ PendingRow)'
        <3>1. Condemned(s)
            BY <2>3 DEF TickDeleteSession, Condemned, Swept
        <3>2. Pending(s) = {}
            BY <3>1 DEF StaleIdle, HasWork, Pending, Resting
        <3>3. sess'[s] = NoRow /\ \A t \in SessionIds : t # s => sess'[t] = sess[t]
            BY <2>3 DEF TickDeleteSession, DeleteSession, TypeOK
        <3> QED
            BY <2>1, <3>2, <3>3, CountKeeps
    <2> QED
        BY <1>4, <2>2, <2>3, TickFrame
<1>5. CASE OperatorNext
    <2>1. sess' = sess /\ \A t \in SessionIds : Pending(t)' \subseteq Pending(t)
        BY <1>5, OperatorFrame DEF Pending
    <2> QED
        BY <2>1, CountKeeps
<1>6. CASE EnvNext
    <2>1. \A t \in SessionIds : Pending(t)' \subseteq Pending(t)
        BY <1>6, EnvFrame DEF Pending
    <2>2. \A t \in SessionIds : Kept(t)
        <3>1. CASE sess' = sess
            BY <3>1
        <3>2. ASSUME NEW s \in SessionIds, SessionAges(s)
              PROVE  \A t \in SessionIds : Kept(t)
            <4>1. sess' = [sess EXCEPT ![s].old = TRUE]
                BY <3>2 DEF SessionAges
            <4> QED
                BY <4>1 DEF TypeOK, SessionRow
        <3> QED
            BY <1>6, <3>1, <3>2, EnvFrame
    <2> QED
        BY <2>1, <2>2, CountKeeps
<1>7. CASE UNCHANGED vars
    <2>1. sess' = sess /\ \A t \in SessionIds : Pending(t)' = Pending(t)
        BY <1>7 DEF vars, Pending
    <2> QED
        BY <2>1, CountKeeps
<1> QED
    BY <1>1, <1>2, <1>3, <1>4, <1>5, <1>6, <1>7 DEF Next

LEMMA InitCount == Init => CountInv /\ PendingRow
<1> SUFFICES ASSUME Init PROVE CountInv /\ PendingRow
    OBVIOUS
<1>1. \A s \in SessionIds : sess[s] = NoRow /\ Pending(s) = {}
    <2>1. \A k \in Kinds, s \in SessionIds : master[k].todo[s] = {}
        BY DEF Init, NoJob, QueuedJob, NoTodo
    <2>2. \A s \in SessionIds, m \in Mailboxes : mbox[s][m] = "none"
        BY DEF Init
    <2> QED
        BY <2>1, <2>2 DEF Init, Pending
<1> QED
    BY <1>1, FS_EmptySet DEF CountInv, PendingRow, NoRow

LEMMA CountInvariant ==
    Env \cap { "starve", "mergeFail", "dispatchFail" } = {} => (Spec => [](CountInv /\ PendingRow))
<1> SUFFICES ASSUME Env \cap { "starve", "mergeFail", "dispatchFail" } = {}
             PROVE  Spec => [](CountInv /\ PendingRow)
    OBVIOUS
<1>1. "starve" \notin Env /\ Env \cap { "mergeFail", "dispatchFail" } = {}
    OBVIOUS
<1>2. IInv /\ StaleIdle /\ CountInv /\ PendingRow /\ [Next]_vars => (CountInv /\ PendingRow)'
    BY <1>1, StepCount
<1>3. Spec => [](StaleIdle /\ TodoEnqueue)
    BY <1>1, WorkInvariant
<1> QED
    BY <1>2, <1>3, InitCount, Invariant, PTL DEF Spec

\* No session is told of more results than it has mailboxes, and a running
\* mailbox job still has its session to report to: whatever crashes, is
\* dispatched again or is forced on the way, unless a report's second half
\* throws after its first or a job waits for longer than the sweep's threshold.
THEOREM CountedOnceAlways ==
    Env \cap { "starve", "mergeFail", "dispatchFail" } = {} => (Spec => []CountedOnce)
<1> SUFFICES ASSUME Env \cap { "starve", "mergeFail", "dispatchFail" } = {} PROVE Spec => []CountedOnce
    OBVIOUS
<1>1. IInv /\ CountInv /\ PendingRow => CountedOnce
    <2> SUFFICES ASSUME IInv, CountInv, PendingRow PROVE CountedOnce
        OBVIOUS
    <2>1. ReportsLand
        BY DEF ReportsLand, PendingRow, Pending
    <2>2. \A s \in SessionIds : sess[s].completed + sess[s].failed <= sess[s].total
        BY PendingFinite DEF IInv, TypeOK, SessionRow, CountInv
    <2> QED
        BY <2>1, <2>2 DEF CountedOnce, NoDoubleCount
<1>2. Spec => [](CountInv /\ PendingRow)
    BY CountInvariant
<1> QED
    BY <1>1, <1>2, Invariant, PTL

-----------------------------------------------------------------------------
(* One cycle per source                                                    *)

\* The faults and commands that the claim, the sweep and the rescue absorb.
Absorbed == { "crash", "listFail", "claimFail", "catchFail", "recordFail", "import" }

Lasts == { "mergeLast", "dispatch", "redispatch" }
FinAwake(s, f) == fin[s][f].pc \notin Resting

\* The mailbox job that found itself last is the only one, and nobody
\* finalizes the session before it.
LastInv ==
    \A s \in SessionIds, m \in Mailboxes : mbox[s][m] \in Lasts =>
        /\ sess[s].row
        /\ \A n \in Mailboxes : n # m => mbox[s][n] \notin Lasts
        /\ \A f \in Dispatchers : ~ FinAwake(s, f)

\* One finalizer at a time works on a session, and never one that the sweep
\* has in hand; one that outlived the threshold was dispatched by the sweep.
FinInv ==
    \A s \in SessionIds, f \in Dispatchers : FinAwake(s, f) =>
        /\ sess[s].row /\ s \notin Swept
        /\ fin[s][f].pc \in { "waiting", "write", "delete" }
        /\ \A g \in Dispatchers : g # f => ~ FinAwake(s, g)
        /\ sess[s].old => f = "sweep"

SweptInv ==
    /\ tick.pc # "delete" => tick.doomed = {}
    /\ \A s, t \in tick.doomed : s = t
    /\ tick.redo \cap tick.stuck = {}
    /\ \A s \in tick.redo \cup tick.stuck : sess[s].row /\ s \notin tick.doomed

\* The source is held by a session that was not released yet, or by a master
\* that claimed it and has not created its session.
Open(s) == sess[s].row /\ s \notin tick.doomed /\ \A f \in Dispatchers : fin[s][f].pc # "delete"
Holding(k) == master[k].pc \in { "enumerate", "catch" }
Held == (\E s \in SessionIds : Open(s)) \/ \E k \in Kinds : Holding(k)

\* At most one holder, the status tells, and the rescue finds none.
CycleInv ==
    /\ \A s, t \in SessionIds : Open(s) /\ Open(t) => s = t
    /\ \A k, j \in Kinds : Holding(k) /\ Holding(j) => k = j
    /\ \A k \in Kinds, s \in SessionIds : ~ (Holding(k) /\ Open(s))
    /\ Held => status \in MidCycle
    /\ \A k \in Kinds : MasterActive(k) => ~ startedOld
    /\ tick.pc \in { "probe", "free" } => status \in MidCycle /\ ~ Held
    /\ force = "idle"

\* What the earlier theorems established.
Settled == IInv /\ StaleIdle /\ TodoEnqueue /\ CountInv /\ PendingRow
ClaimInv == LastInv /\ FinInv /\ SweptInv /\ CycleInv

LEMMA NoSpend ==
    ASSUME Env \subseteq Absorbed,
           NEW kind \in { "pause", "resume", "force", "crashMidRelease", "enqueueFail", "mergeFail", "dispatchFail",
                          "finalizeFail", "sweepFail", "starve", "slowList", "slowFinalizer",
                          "claimLost" }
    PROVE  ~ Spend(kind)
BY DEF Absorbed, Spend

LEMMA InitClaim == Init => ClaimInv
<1> SUFFICES ASSUME Init PROVE ClaimInv
    OBVIOUS
<1>1. /\ \A s \in SessionIds : ~ sess[s].row
      /\ \A s \in SessionIds, m \in Mailboxes : mbox[s][m] = "none"
      /\ \A s \in SessionIds, f \in Dispatchers : fin[s][f].pc = "none"
      /\ \A k \in Kinds : master[k].pc \in { "none", "waiting" }
      /\ tick.pc = "idle" /\ tick.redo = {} /\ tick.stuck = {} /\ tick.doomed = {} /\ force = "idle"
    BY DEF Init, NoRow, NoFin, NoJob, QueuedJob, IdleTick
<1>2. LastInv /\ FinInv /\ SweptInv
    BY <1>1 DEF LastInv, FinInv, SweptInv, Lasts, FinAwake, Resting
<1>3. ~ Held /\ \A s \in SessionIds : ~ Open(s)
    BY <1>1 DEF Held, Open, Holding
<1>4. CycleInv
    BY <1>1, <1>3 DEF CycleInv, Holding, MasterActive
<1> QED
    BY <1>2, <1>4 DEF ClaimInv

\* A step that makes no last mailbox, wakes no finalizer, and deletes only a
\* session that has neither.
LEMMA LastKeeps ==
    ASSUME LastInv, FinInv,
           \A s \in SessionIds, m \in Mailboxes : mbox'[s][m] \in Lasts => mbox[s][m] \in Lasts,
           \A s \in SessionIds, f \in Dispatchers :
              FinAwake(s, f)' => FinAwake(s, f) /\ fin'[s][f].pc \in { "waiting", "write", "delete" },
           \A s \in SessionIds :
              \/ sess[s].row => sess'[s].row
              \/ /\ \A m \in Mailboxes : mbox'[s][m] \notin Lasts
                 /\ \A f \in Dispatchers : ~ FinAwake(s, f)',
           \A s \in SessionIds : sess'[s].old => sess[s].old,
           Swept' \subseteq Swept
    PROVE  LastInv' /\ FinInv'
<1>1. LastInv'
    <2> SUFFICES ASSUME NEW s \in SessionIds, NEW m \in Mailboxes, mbox'[s][m] \in Lasts
                 PROVE  /\ sess'[s].row
                        /\ \A n \in Mailboxes : n # m => mbox'[s][n] \notin Lasts
                        /\ \A f \in Dispatchers : ~ FinAwake(s, f)'
        BY DEF LastInv, Lasts
    <2>1. mbox[s][m] \in Lasts
        OBVIOUS
    <2> QED
        BY <2>1 DEF LastInv
<1>2. FinInv'
    <2> SUFFICES ASSUME NEW s \in SessionIds, NEW f \in Dispatchers, FinAwake(s, f)'
                 PROVE  /\ sess'[s].row /\ s \notin Swept'
                        /\ fin'[s][f].pc \in { "waiting", "write", "delete" }
                        /\ \A g \in Dispatchers : g # f => ~ FinAwake(s, g)'
                        /\ sess'[s].old => f = "sweep"
        BY DEF FinInv
    <2>1. FinAwake(s, f)
        OBVIOUS
    <2> QED
        BY <2>1 DEF FinInv
<1> QED
    BY <1>1, <1>2

LEMMA CycleKeeps ==
    ASSUME CycleInv,
           \A s \in SessionIds : Open(s)' => Open(s),
           \A k \in Kinds : Holding(k)' => Holding(k),
           \A k \in Kinds : MasterActive(k)' => MasterActive(k),
           startedOld' = startedOld,
           force' = force,
           tick'.pc \in { "probe", "free" } => tick.pc \in { "probe", "free" },
           status' = status \/ (~ Held' /\ tick'.pc \notin { "probe", "free" })
    PROVE  CycleInv'
<1>1. Held' => Held
    BY DEF Held
<1>2. /\ \A s, t \in SessionIds : Open(s)' /\ Open(t)' => s = t
      /\ \A k, j \in Kinds : Holding(k)' /\ Holding(j)' => k = j
      /\ \A k \in Kinds, s \in SessionIds : ~ (Holding(k)' /\ Open(s)')
      /\ \A k \in Kinds : MasterActive(k)' => ~ startedOld'
      /\ force' = "idle"
    BY DEF CycleInv
<1>3. Held' => status' \in MidCycle
    BY <1>1 DEF CycleInv
<1>4. tick'.pc \in { "probe", "free" } => status' \in MidCycle /\ ~ Held'
    BY <1>1 DEF CycleInv
<1> QED
    BY <1>2, <1>3, <1>4 DEF CycleInv, MidCycle

\* SweptInv speaks of the tick and of which rows there are.
LEMMA SweptKeeps ==
    ASSUME TypeOK, SweptInv, tick' = tick,
           \A s \in SessionIds : s \in Swept /\ sess[s].row => sess'[s].row
    PROVE  SweptInv'
<1>1. tick.redo \subseteq SessionIds /\ tick.stuck \subseteq SessionIds
    BY DEF TypeOK
<1> QED
    BY <1>1 DEF SweptInv, Swept

\* What each step of a master does to the claim.
LEMMA MasterPcs ==
    ASSUME TypeOK, NEW k \in Kinds
    PROVE  /\ MasterClaim(k) =>
                 \/ /\ Claimable(k) /\ master'[k].pc = "enumerate"
                    /\ status' = ClaimedStatus(k) /\ startedOld' = FALSE
                 \/ master'[k].pc = "none" /\ status' = status /\ startedOld' = startedOld
           /\ MasterClaimFail(k) =>
                 /\ Claimable(k) /\ master'[k].pc \in { "waiting", "none", "catch" }
                 /\ status' = ClaimedStatus(k) /\ startedOld' = FALSE
           /\ MasterClaimLost(k) =>
                 /\ master'[k].pc \in { "waiting", "none" } \/ Spend("claimLost")
                 /\ status' = status /\ startedOld' = startedOld
           /\ MasterNoUsers(k) =>
                 master[k].pc = "enumerate" /\ master'[k].pc = "none" /\ startedOld' = startedOld
           /\ MasterThrow(k) =>
                 /\ master[k].pc = "enumerate" \/ Spend("enqueueFail")
                 /\ master'[k].pc = "catch" /\ status' = status /\ startedOld' = startedOld
           /\ MasterCatch(k) \/ MasterCatchFail(k) =>
                 master[k].pc = "catch" /\ master'[k].pc \in { "waiting", "none" } /\ startedOld' = startedOld
           /\ MasterCatchFail(k) \/ FailStalledMaster(k) => status' = status
           /\ FailStalledMaster(k) => master'[k].pc = "none" /\ startedOld' = startedOld
<1>1. /\ NoJob.pc = "none" /\ Retried(k).pc \in { "waiting", "none" }
      /\ \A v : [master EXCEPT ![k] = v][k] = v
      /\ \A p : [master EXCEPT ![k].pc = p][k].pc = p
    BY JobTypes DEF NoJob, Retried, QueuedJob, MasterType
<1>2. MasterClaim(k) =>
          \/ /\ Claimable(k) /\ master'[k].pc = "enumerate"
             /\ status' = ClaimedStatus(k) /\ startedOld' = FALSE
          \/ master'[k].pc = "none" /\ status' = status /\ startedOld' = startedOld
    BY <1>1 DEF MasterClaim
<1>3. MasterClaimFail(k) =>
          /\ Claimable(k) /\ master'[k].pc \in { "waiting", "none", "catch" }
          /\ status' = ClaimedStatus(k) /\ startedOld' = FALSE
    BY <1>1 DEF MasterClaimFail
<1>6. MasterClaimLost(k) =>
          /\ master'[k].pc \in { "waiting", "none" } \/ Spend("claimLost")
          /\ status' = status /\ startedOld' = startedOld
    BY <1>1 DEF MasterClaimLost
<1>4. MasterThrow(k) =>
          /\ master[k].pc = "enumerate" \/ Spend("enqueueFail")
          /\ master'[k].pc = "catch" /\ status' = status /\ startedOld' = startedOld
    BY JobTypes DEF MasterThrow, MasterType
<1>5. /\ MasterNoUsers(k) => master[k].pc = "enumerate" /\ master'[k].pc = "none" /\ startedOld' = startedOld
      /\ MasterCatch(k) \/ MasterCatchFail(k) =>
            master[k].pc = "catch" /\ master'[k].pc \in { "waiting", "none" } /\ startedOld' = startedOld
      /\ MasterCatchFail(k) \/ FailStalledMaster(k) => status' = status
      /\ FailStalledMaster(k) => master'[k].pc = "none" /\ startedOld' = startedOld
    BY <1>1 DEF MasterNoUsers, MasterCatch, MasterCatchFail, FailStalledMaster
<1> QED
    BY <1>2, <1>3, <1>4, <1>5, <1>6

\* A claim that succeeds finds the source held by nobody.
LEMMA ClaimCycle ==
    ASSUME CycleInv, NEW k \in Kinds, Claimable(k), status' = ClaimedStatus(k), startedOld' = FALSE,
           UNCHANGED << sess, fin, tick, force >>,
           \A j \in Kinds : j # k => master'[j] = master[j],
           MasterActive(k)' => Holding(k)' \/ MasterActive(k)
    PROVE  CycleInv'
<1>1. status \notin MidCycle /\ status' \in MidCycle
    BY DEF Claimable, ClaimedStatus, MidCycle
<1>2. ~ Held /\ tick.pc \notin { "probe", "free" }
    BY <1>1 DEF CycleInv
<1>3. \A s \in SessionIds : ~ Open(s)'
    BY <1>2 DEF Held, Open
<1>4. \A j \in Kinds : j # k => ~ Holding(j)'
    BY <1>2 DEF Held, Holding
<1> QED
    BY <1>1, <1>2, <1>3, <1>4 DEF CycleInv

LEMMA MasterClaims ==
    ASSUME Settled, ClaimInv, Env \subseteq Absorbed, NEW k \in Kinds, MasterNext(k)
    PROVE  ClaimInv'
<1> TypeOK
    BY DEF Settled, IInv
<1>1. ASSUME NEW s \in SessionIds, NEW users \in SUBSET Mailboxes, MasterCreateSession(k, s, users)
      PROVE  ClaimInv'
    <2>1. \A t \in SessionIds : t # s => sess'[t] = sess[t]
        BY <1>1, CreateFrame
    <2>2. /\ UNCHANGED << status, startedOld, mbox, fin, tick, force >>
          /\ ~ sess[s].row /\ sess'[s].row /\ ~ sess'[s].old
          /\ \A m \in Mailboxes : mbox[s][m] = "none"
          /\ \A f \in Dispatchers : fin[s][f].pc = "none"
          /\ s \notin Swept
        BY <1>1, CreateFrame DEF Free, Swept
    <2>3. LastInv'
        BY <2>1, <2>2 DEF ClaimInv, LastInv, Lasts, FinAwake
    <2>4. FinInv'
        BY <2>1, <2>2 DEF ClaimInv, FinInv, FinAwake, Resting, Swept
    <2>5. SweptInv'
        BY <2>1, <2>2, SweptKeeps DEF ClaimInv
    <2>6. Holding(k) /\ ~ Holding(k)' /\ MasterActive(k)
        BY <1>1, CreateFrame DEF Holding, MasterActive
    <2>7. \A j \in Kinds : j # k => master'[j] = master[j]
        BY <1>1, CreateFrame
    <2>8. \A t \in SessionIds : Open(t)' => t = s
        BY <2>1, <2>2, <2>6 DEF ClaimInv, CycleInv, Open
    <2>9. \A j \in Kinds : ~ Holding(j)'
        BY <2>6, <2>7 DEF ClaimInv, CycleInv, Holding
    <2>10. Held
        BY <2>6 DEF Held
    <2>11. CycleInv'
        BY <2>2, <2>6, <2>7, <2>8, <2>9, <2>10 DEF ClaimInv, CycleInv, MasterActive
    <2> QED
        BY <2>3, <2>4, <2>5, <2>11 DEF ClaimInv
<1>2. ASSUME NEW s \in SessionIds, NEW page \in SUBSET Mailboxes, MasterEnqueue(k, s, page)
      PROVE  ClaimInv'
    <2>1. UNCHANGED << status, startedOld, sess, fin, tick, force >>
        BY <1>2, EnqueueFrame
    <2>2. \A t \in SessionIds, m \in Mailboxes : mbox'[t][m] \in Lasts => mbox[t][m] \in Lasts
        BY <1>2, EnqueueFrame DEF Lasts
    <2>3. LastInv' /\ FinInv'
        BY <2>1, <2>2, LastKeeps DEF ClaimInv, FinInv, FinAwake, Swept
    <2>4. SweptInv'
        BY <2>1, SweptKeeps DEF ClaimInv
    <2>5. \A j \in Kinds : (Holding(j)' => Holding(j)) /\ (MasterActive(j)' => MasterActive(j))
        BY <1>2, EnqueueFrame DEF Holding, MasterActive, NoJob
    <2>6. CycleInv'
        BY <2>1, <2>5, CycleKeeps DEF ClaimInv, Open
    <2> QED
        BY <2>3, <2>4, <2>6 DEF ClaimInv
<1>3. CASE QuietMaster /\ ~ (\E s \in SessionIds, users \in SUBSET Mailboxes : MasterCreateSession(k, s, users))
                       /\ ~ (\E s \in SessionIds, page \in SUBSET Mailboxes : MasterEnqueue(k, s, page))
    <2>1. UNCHANGED << sess, mbox, fin, tick, force >>
        BY <1>3, MasterFrame DEF QuietMaster
    <2>2. LastInv' /\ FinInv' /\ SweptInv'
        BY <2>1 DEF ClaimInv, LastInv, FinInv, SweptInv, FinAwake, Swept
    <2>3. \A j \in Kinds : j # k => master'[j] = master[j]
        BY MasterFrame
    <2>4. \A s \in SessionIds : Open(s)' <=> Open(s)
        BY <2>1 DEF Open
    <2>5. Holding(k) => (\A s \in SessionIds : ~ Open(s)) /\ (\A j \in Kinds : j # k => ~ Holding(j))
        BY DEF ClaimInv, CycleInv
    <2>6. Holding(k) => tick.pc \notin { "probe", "free" }
        BY DEF ClaimInv, CycleInv, Held
    <2>7. CASE \/ MasterClaim(k) /\ Claimable(k) /\ status' = ClaimedStatus(k) /\ startedOld' = FALSE
               \/ MasterClaimFail(k)
        <3>1. Claimable(k) /\ status' = ClaimedStatus(k) /\ startedOld' = FALSE
            BY <2>7, MasterPcs
        <3>2. MasterActive(k)' => Holding(k)' \/ MasterActive(k)
            BY <2>7, MasterPcs DEF MasterActive, Holding
        <3> QED
            BY <2>1, <2>2, <2>3, <3>1, <3>2, ClaimCycle DEF ClaimInv
    <2>8. CASE \/ MasterClaim(k) /\ master'[k].pc = "none" /\ status' = status /\ startedOld' = startedOld
               \/ FailStalledMaster(k)
               \/ MasterClaimLost(k)
        <3>1. status' = status /\ startedOld' = startedOld /\ master'[k].pc \in { "waiting", "none" }
            BY <2>8, MasterPcs, NoSpend
        <3>2. \A j \in Kinds : (Holding(j)' => Holding(j)) /\ (MasterActive(j)' => MasterActive(j))
            BY <2>3, <3>1 DEF Holding, MasterActive
        <3> QED
            BY <2>1, <2>2, <2>4, <3>1, <3>2, CycleKeeps DEF ClaimInv
    <2>9. CASE MasterThrow(k)
        <3>1. /\ master[k].pc = "enumerate" /\ master'[k].pc = "catch"
              /\ status' = status /\ startedOld' = startedOld
            BY <2>9, MasterPcs, NoSpend
        <3>2. \A j \in Kinds : (Holding(j)' => Holding(j)) /\ (MasterActive(j)' => MasterActive(j))
            BY <2>3, <3>1 DEF Holding, MasterActive
        <3> QED
            BY <2>1, <2>2, <2>4, <3>1, <3>2, CycleKeeps DEF ClaimInv
    <2>10. CASE MasterNoUsers(k) \/ MasterCatch(k) \/ MasterCatchFail(k)
        <3>1. Holding(k) /\ ~ Holding(k)' /\ ~ MasterActive(k)' /\ startedOld' = startedOld
            BY <2>10, MasterPcs DEF Holding, MasterActive
        <3>2. \A j \in Kinds : (Holding(j)' => Holding(j)) /\ (MasterActive(j)' => MasterActive(j))
            BY <2>3, <3>1 DEF Holding, MasterActive
        <3>3. ~ Held'
            <4>1. \A s \in SessionIds : ~ Open(s)'
                BY <2>4, <2>5, <3>1
            <4>2. \A j \in Kinds : j # k => ~ Holding(j)'
                BY <2>3, <2>5, <3>1 DEF Holding
            <4> QED
                BY <3>1, <4>1, <4>2 DEF Held
        <3> QED
            BY <2>1, <2>2, <2>4, <2>6, <3>1, <3>2, <3>3, CycleKeeps DEF ClaimInv
    <2> QED
        BY <1>3, <2>7, <2>8, <2>9, <2>10, MasterPcs DEF MasterNext
<1> QED
    BY <1>1, <1>2, <1>3, MasterFrame

\* Who has seen every mailbox reported: no result of the session is pending.
LEMMA SawAllNotPending ==
    ASSUME Settled, ClaimInv, NEW s \in SessionIds,
           \/ \E m \in Mailboxes : mbox[s][m] \in Lasts
           \/ \E f \in Dispatchers : FinAwake(s, f)
    PROVE  Pending(s) = {}
<1> TypeOK
    BY DEF Settled, IInv
<1>1. sess[s].row
    BY DEF ClaimInv, LastInv, FinInv
<1>2. AllReported(sess[s])
    <2>1. CASE \E m \in Mailboxes : mbox[s][m] \in Lasts
        BY <1>1, <2>1 DEF Settled, IInv, DispatchersSawAll, Lasts
    <2>2. CASE \E f \in Dispatchers : FinAwake(s, f)
        BY <1>1, <2>2 DEF Settled, IInv, FinalizersComeLast, FinAwake, Resting
    <2> QED
        BY <2>1, <2>2
<1> QED
    BY <1>2, ReportedNotPending DEF Settled

LEMMA MailboxClaims ==
    ASSUME Settled, ClaimInv, Env \subseteq Absorbed, NEW s \in SessionIds, NEW m \in Mailboxes, MailboxNext(s, m)
    PROVE  ClaimInv'
<1> TypeOK
    BY DEF Settled, IInv
<1> m \in Dispatchers
    BY DEF Dispatchers
<1>1. /\ UNCHANGED << status, startedOld, master, tick >>
      /\ \A t \in SessionIds : t # s => sess'[t] = sess[t]
      /\ \A t \in SessionIds, n \in Mailboxes : t # s \/ n # m => mbox'[t][n] = mbox[t][n]
    BY MailboxFrame
<1>2. sess'[s].row = sess[s].row
    <2>1. CASE MailboxHeartbeat(s, m)
        BY <2>1 DEF MailboxHeartbeat, TypeOK, SessionRow
    <2>2. CASE MailboxSucceed(s, m) \/ MailboxPartial(s, m) \/ MailboxSkip(s, m) \/ MailboxReport(s, m)
        <3>1. \/ sess' = sess
              \/ sess[s].row /\ sess' = [sess EXCEPT ![s] = Counted(sess[s], TRUE)]
              \/ sess[s].row /\ sess' = [sess EXCEPT ![s] = Counted(sess[s], FALSE)]
            BY <2>2 DEF MailboxSucceed, MailboxPartial, MailboxSkip, MailboxReport, Record
        <3>2. sess[s].row \in BOOLEAN
            BY DEF TypeOK, SessionRow
        <3>3. Counted(sess[s], TRUE).row = TRUE /\ Counted(sess[s], FALSE).row = TRUE
            BY DEF Counted
        <3>4. CASE sess' # sess
            <4>1. sess[s].row = TRUE
                BY <3>1, <3>2, <3>4
            <4>2. sess'[s] = Counted(sess[s], TRUE) \/ sess'[s] = Counted(sess[s], FALSE)
                BY <3>1, <3>4 DEF TypeOK
            <4> QED
                BY <3>3, <4>1, <4>2
        <3> QED
            BY <3>4
    <2>3. CASE ~ (\/ MailboxSucceed(s, m) \/ MailboxPartial(s, m) \/ MailboxSkip(s, m) \/ MailboxReport(s, m)
                  \/ MailboxHeartbeat(s, m))
        BY <2>3 DEF MailboxNext, MailboxStart, MailboxThrow, MailboxReportFail, MailboxMerge, MailboxMergeFail,
           MailboxDispatch, MailboxDispatchFail, FailStalledMailbox
    <2> QED
        BY <2>1, <2>2, <2>3
<1>3. \A t \in SessionIds : sess'[t].old => sess[t].old
    BY <1>1, MailboxActive
<1>4. force' = force
    BY DEF MailboxNext, MailboxStart, MailboxSucceed, MailboxPartial, MailboxSkip, MailboxThrow, MailboxReport,
       MailboxReportFail, MailboxMerge, MailboxMergeFail, MailboxDispatch, MailboxDispatchFail, MailboxHeartbeat,
       FailStalledMailbox, Record
<1>5. SweptInv'
    BY <1>1, <1>2, SweptKeeps DEF ClaimInv
<1>6. Swept' = Swept
    BY <1>1 DEF Swept
<1>7. (\A t \in SessionIds, f \in Dispatchers : fin'[t][f].pc = "delete" <=> fin[t][f].pc = "delete") => CycleInv'
    <2> HAVE \A t \in SessionIds, f \in Dispatchers : fin'[t][f].pc = "delete" <=> fin[t][f].pc = "delete"
    <2>1. \A t \in SessionIds : Open(t)' => Open(t)
        BY <1>1, <1>2 DEF Open
    <2> QED
        BY <1>1, <1>4, <2>1, CycleKeeps DEF ClaimInv, Holding, MasterActive
<1>8. CASE MailboxDispatch(s, m)
    <2>1. /\ mbox[s][m] \in Lasts /\ mbox'[s][m] = "none" /\ sess' = sess
          /\ fin'[s][m] = QueuedFin
          /\ \A t \in SessionIds, g \in Dispatchers : t # s \/ g # m => fin'[t][g] = fin[t][g]
        BY <1>8 DEF MailboxDispatch, Lasts, TypeOK
    <2>2. /\ sess[s].row
          /\ \A n \in Mailboxes : n # m => mbox[s][n] \notin Lasts
          /\ \A f \in Dispatchers : ~ FinAwake(s, f)
        BY <2>1 DEF ClaimInv, LastInv
    <2>3. ~ Condemned(s)
        BY <2>1 DEF Settled, StaleIdle, HasWork, Lasts, Resting
    <2>4. \A n \in Mailboxes : mbox'[s][n] \notin Lasts
        BY <1>1, <2>1, <2>2 DEF Lasts
    <2>5. LastInv'
        <3> SUFFICES ASSUME NEW t \in SessionIds, NEW n \in Mailboxes, mbox'[t][n] \in Lasts
                     PROVE  /\ sess'[t].row
                            /\ \A i \in Mailboxes : i # n => mbox'[t][i] \notin Lasts
                            /\ \A f \in Dispatchers : ~ FinAwake(t, f)'
            BY DEF LastInv, Lasts
        <3>1. t # s
            BY <2>4
        <3> QED
            BY <1>1, <2>1, <3>1 DEF ClaimInv, LastInv, FinAwake
    <2>6. FinInv'
        <3>1. /\ FinAwake(s, m)' /\ fin'[s][m].pc = "waiting"
              /\ \A g \in Dispatchers : g # m => ~ FinAwake(s, g)'
            BY <2>1, <2>2 DEF FinAwake, QueuedFin, Resting
        <3>2. sess'[s].row /\ ~ sess'[s].old /\ s \notin Swept'
            BY <1>6, <2>1, <2>2, <2>3 DEF Condemned
        <3>3. \A t \in SessionIds, g \in Dispatchers : t # s => (FinAwake(t, g)' <=> FinAwake(t, g))
            BY <2>1 DEF FinAwake
        <3> QED
            BY <1>6, <2>1, <3>1, <3>2, <3>3 DEF ClaimInv, FinInv
    <2>7. \A t \in SessionIds, f \in Dispatchers : fin'[t][f].pc = "delete" <=> fin[t][f].pc = "delete"
        BY <2>1, <2>2 DEF QueuedFin, FinAwake, Resting
    <2> QED
        BY <1>5, <1>7, <2>5, <2>6, <2>7 DEF ClaimInv
<1>9. CASE ~ MailboxDispatch(s, m)
    <2>1. fin' = fin
        BY <1>9, MailboxFrame
    <2>2. CASE mbox[s][m] \notin Lasts /\ mbox'[s][m] \in Lasts
        <3>1. mbox[s][m] \in { "running", "report" }
            <4>1. CASE MailboxSucceed(s, m) \/ MailboxPartial(s, m) \/ MailboxSkip(s, m) \/ MailboxReport(s, m)
                BY <4>1 DEF MailboxSucceed, MailboxPartial, MailboxSkip, MailboxReport
            <4>2. CASE MailboxMerge(s, m) \/ MailboxMergeFail(s, m) \/ MailboxDispatchFail(s, m)
                BY <2>2, <4>2 DEF MailboxMerge, MailboxMergeFail, MailboxDispatchFail, Lasts, TypeOK
            <4>3. CASE \/ MailboxStart(s, m) \/ MailboxThrow(s, m) \/ MailboxReportFail(s, m)
                       \/ MailboxHeartbeat(s, m) \/ FailStalledMailbox(s, m)
                BY <2>2, <4>3 DEF MailboxStart, MailboxThrow, MailboxReportFail, MailboxHeartbeat,
                   FailStalledMailbox, Lasts, TypeOK
            <4> QED
                BY <1>9, <4>1, <4>2, <4>3 DEF MailboxNext
        <3>2. Pending(s) # {}
            BY <3>1 DEF Pending
        <3>3. /\ \A n \in Mailboxes : mbox[s][n] \notin Lasts
              /\ \A f \in Dispatchers : ~ FinAwake(s, f)
            BY <3>2, SawAllNotPending
        <3>4. sess'[s].row
            BY <1>2, <3>2 DEF Settled, PendingRow
        <3>5. LastInv'
            BY <1>1, <2>1, <3>3, <3>4 DEF ClaimInv, LastInv, FinAwake
        <3>6. FinInv'
            BY <1>1, <1>6, <2>1, <3>3 DEF ClaimInv, FinInv, FinAwake
        <3> QED
            BY <1>5, <1>7, <2>1, <3>5, <3>6 DEF ClaimInv
    <2>3. CASE ~ (mbox[s][m] \notin Lasts /\ mbox'[s][m] \in Lasts)
        <3>1. \A t \in SessionIds, n \in Mailboxes : mbox'[t][n] \in Lasts => mbox[t][n] \in Lasts
            BY <1>1, <2>3
        <3>2. \A t \in SessionIds, f \in Dispatchers :
                 FinAwake(t, f)' => FinAwake(t, f) /\ fin'[t][f].pc \in { "waiting", "write", "delete" }
            BY <2>1 DEF ClaimInv, FinInv, FinAwake
        <3>3. \A t \in SessionIds : sess[t].row => sess'[t].row
            BY <1>1, <1>2
        <3>4. LastInv' /\ FinInv'
            BY <1>3, <1>6, <3>1, <3>2, <3>3, LastKeeps DEF ClaimInv
        <3> QED
            BY <1>5, <1>7, <2>1, <3>4 DEF ClaimInv
    <2> QED
        BY <2>2, <2>3
<1> QED
    BY <1>8, <1>9

LEMMA FinClaims ==
    ASSUME Settled, ClaimInv, Env \subseteq Absorbed, NEW s \in SessionIds, NEW f \in Dispatchers, FinNext(s, f)
    PROVE  ClaimInv'
<1> TypeOK
    BY DEF Settled, IInv
<1>1. /\ UNCHANGED << startedOld, mbox, master, tick >>
      /\ \A t \in SessionIds : t # s => sess'[t] = sess[t]
      /\ \A t \in SessionIds, g \in Dispatchers : t # s \/ g # f => fin'[t][g] = fin[t][g]
    BY FinFrame
<1>2. force' = force
    BY DEF FinNext, FinRead, FinWrite, FinDelete, FinCatch, FinFail, FailStalledFin
<1>3. Swept' = Swept
    BY <1>1 DEF Swept
<1>4. FinAwake(s, f) => /\ sess[s].row /\ s \notin Swept
                        /\ fin[s][f].pc \in { "waiting", "write", "delete" }
                        /\ \A g \in Dispatchers : g # f => ~ FinAwake(s, g)
                        /\ \A m \in Mailboxes : mbox[s][m] \notin Lasts
    BY DEF ClaimInv, FinInv, LastInv
<1>5. ASSUME sess' = sess, FinAwake(s, f)' => FinAwake(s, f) /\ fin'[s][f].pc \in { "write", "delete" }
      PROVE  LastInv' /\ FinInv' /\ SweptInv'
    <2>1. \A t \in SessionIds, g \in Dispatchers :
             FinAwake(t, g)' => FinAwake(t, g) /\ fin'[t][g].pc \in { "waiting", "write", "delete" }
        BY <1>1, <1>5 DEF ClaimInv, FinInv, FinAwake
    <2>2. LastInv' /\ FinInv'
        BY <1>1, <1>3, <1>5, <2>1, LastKeeps DEF ClaimInv
    <2> QED
        BY <1>1, <1>5, <2>2, SweptKeeps DEF ClaimInv
<1>6. ASSUME status' = status, \A t \in SessionIds : Open(t)' => Open(t)
      PROVE  CycleInv'
    BY <1>1, <1>2, <1>6, CycleKeeps DEF ClaimInv, Holding, MasterActive
<1>7. CASE FinRead(s, f)
    <2>1. FinAwake(s, f) /\ sess' = sess /\ status' = status
        BY <1>7 DEF FinRead, FinAwake, Resting
    <2>2. fin'[s][f].pc = "write"
        BY <1>4, <1>7, <2>1 DEF FinRead, TypeOK
    <2>3. \A t \in SessionIds : Open(t)' => Open(t)
        <3>1. fin[s][f].pc # "delete"
            BY <1>7 DEF FinRead
        <3> QED
            BY <1>1, <2>1, <3>1 DEF Open
    <2> QED
        BY <1>5, <1>6, <2>1, <2>2, <2>3 DEF ClaimInv
<1>8. CASE FinWrite(s, f)
    <2>1. FinAwake(s, f) /\ sess' = sess /\ fin'[s][f].pc = "delete" /\ fin[s][f].pc = "write"
        BY <1>8 DEF FinWrite, FinAwake, Resting, TypeOK
    <2>2. Open(s)
        BY <1>4, <2>1 DEF Open, Swept, FinAwake, Resting
    <2>3. ~ Open(s)' /\ \A t \in SessionIds : t # s => (Open(t)' <=> Open(t))
        BY <1>1, <2>1 DEF Open
    <2>4. (\A t \in SessionIds : t # s => ~ Open(t)) /\ (\A k \in Kinds : ~ Holding(k)) /\ Held
        BY <2>2 DEF ClaimInv, CycleInv, Held
    <2>5. \A k \in Kinds : ~ Holding(k)'
        BY <1>1, <2>4 DEF Holding
    <2>6. ~ Held'
        BY <2>3, <2>4, <2>5 DEF Held
    <2>7. tick'.pc \notin { "probe", "free" }
        BY <1>1, <2>4 DEF ClaimInv, CycleInv
    <2>8. CycleInv'
        BY <1>1, <1>2, <2>3, <2>4, <2>6, <2>7, CycleKeeps DEF ClaimInv, Holding, MasterActive
    <2> QED
        BY <1>5, <2>1, <2>8 DEF ClaimInv
<1>9. CASE FinDelete(s, f)
    <2>1. FinAwake(s, f) /\ fin[s][f].pc = "delete"
        BY <1>4, <1>9 DEF FinDelete, FinAwake, Resting
    <2>2. sess'[s] = NoRow /\ fin'[s][f].pc = "none" /\ status' = status
        BY <1>9 DEF FinDelete, DeleteSession, NoFin, TypeOK
    <2>3. \A g \in Dispatchers : ~ FinAwake(s, g)'
        BY <1>1, <1>4, <2>1, <2>2 DEF FinAwake, Resting
    <2>4. \A t \in SessionIds, g \in Dispatchers :
             FinAwake(t, g)' => FinAwake(t, g) /\ fin'[t][g].pc \in { "waiting", "write", "delete" }
        BY <1>1, <2>3 DEF ClaimInv, FinInv, FinAwake
    <2>5. \A t \in SessionIds : sess'[t].old => sess[t].old
        BY <1>1, <2>2 DEF NoRow
    <2>6. LastInv' /\ FinInv'
        BY <1>1, <1>3, <1>4, <2>1, <2>3, <2>4, <2>5, LastKeeps DEF ClaimInv
    <2>7. SweptInv'
        BY <1>1, <1>4, <2>1, SweptKeeps DEF ClaimInv
    <2>8. ~ Open(s)' /\ \A t \in SessionIds : t # s => (Open(t)' <=> Open(t))
        BY <1>1, <2>2 DEF Open, NoRow
    <2> QED
        BY <1>6, <2>2, <2>6, <2>7, <2>8 DEF ClaimInv
<1>10. CASE FailStalledFin(s, f)
    <2>1. ~ FinAwake(s, f)' /\ sess' = sess /\ status' = status /\ fin[s][f].pc = "stalled"
        BY <1>10 DEF FailStalledFin, FinAwake, NoFin, Resting, TypeOK
    <2>2. \A t \in SessionIds : Open(t)' => Open(t)
        BY <1>1, <2>1 DEF Open
    <2> QED
        BY <1>5, <1>6, <2>1, <2>2 DEF ClaimInv
<1>11. ~ FinFail(s, f)
    BY NoSpend DEF FinFail
<1>12. ~ FinCatch(s, f)
    BY <1>4 DEF FinCatch, FinAwake, Resting
<1> QED
    BY <1>7, <1>8, <1>9, <1>10, <1>11, <1>12 DEF FinNext

\* A queue.add claims nothing.
LEMMA AddMasterPcs ==
    ASSUME TypeOK, NEW k \in Kinds, AddMaster(k)
    PROVE  \A j \in Kinds : master'[j] = master[j] \/ master'[j].pc = "waiting"
BY JobTypes DEF AddMaster, QueuedJob, MasterType

LEMMA OperatorClaims ==
    ASSUME Settled, ClaimInv, Env \subseteq Absorbed, OperatorNext
    PROVE  ClaimInv'
<1> TypeOK
    BY DEF Settled, IInv
<1>1. force = "idle"
    BY DEF ClaimInv, CycleInv
<1>2. TriggerImport
    BY <1>1, NoSpend DEF OperatorNext, Pause, Resume, ForceRemoveJobs, ForceResetStatus, ForceAdd
<1>3. UNCHANGED << status, startedOld, sess, mbox, fin, tick, force >>
    BY <1>2 DEF TriggerImport
<1>4. LastInv' /\ FinInv' /\ SweptInv'
    BY <1>3 DEF ClaimInv, LastInv, FinInv, SweptInv, FinAwake, Swept
<1>5. \A j \in Kinds : (Holding(j)' => Holding(j)) /\ (MasterActive(j)' => MasterActive(j))
    BY <1>2, AddMasterPcs DEF TriggerImport, Kinds, Holding, MasterActive
<1>6. \A s \in SessionIds : Open(s)' => Open(s)
    BY <1>3 DEF Open
<1> QED
    BY <1>3, <1>4, <1>5, <1>6, CycleKeeps DEF ClaimInv

LEMMA EnvClaims ==
    ASSUME Settled, ClaimInv, Env \subseteq Absorbed, EnvNext
    PROVE  ClaimInv'
<1> TypeOK
    BY DEF Settled, IInv
<1>1. ASSUME NEW s \in SessionIds, SessionAges(s)
      PROVE  ClaimInv'
    <2>1. UNCHANGED << status, startedOld, mbox, fin, master, tick, force >>
        BY <1>1 DEF SessionAges
    <2>2. /\ sess'[s].row = sess[s].row
          /\ \A t \in SessionIds : t # s => sess'[t] = sess[t]
        BY <1>1 DEF SessionAges, TypeOK, SessionRow
    <2>3. \A f \in Dispatchers : ~ FinAwake(s, f)
        <3>1. \A f \in Dispatchers : fin[s][f].pc # "waiting" /\ ~ FinActive(s, f)
            BY <1>1, NoSpend DEF SessionAges
        <3>2. \A f \in Dispatchers : fin[s][f].pc \in FinPc
            BY DEF TypeOK
        <3> QED
            BY <3>1, <3>2 DEF FinAwake, FinActive, FinPc, Resting
    <2>4. LastInv'
        BY <2>1, <2>2 DEF ClaimInv, LastInv, FinAwake
    <2>5. FinInv'
        BY <2>1, <2>2, <2>3 DEF ClaimInv, FinInv, FinAwake, Swept
    <2>6. SweptInv'
        BY <2>1, <2>2, SweptKeeps DEF ClaimInv
    <2>7. \A t \in SessionIds : Open(t)' => Open(t)
        BY <2>1, <2>2 DEF Open
    <2>8. CycleInv'
        BY <2>1, <2>7, CycleKeeps DEF ClaimInv, Holding, MasterActive
    <2> QED
        BY <2>4, <2>5, <2>6, <2>8 DEF ClaimInv
<1>2. CASE StartAges
    <2>1. UNCHANGED << status, sess, mbox, fin, master, tick, force >>
        BY <1>2 DEF StartAges
    <2>2. \A k \in Kinds : ~ MasterActive(k)
        BY <1>2, NoSpend DEF StartAges
    <2>3. LastInv' /\ FinInv' /\ SweptInv'
        BY <2>1 DEF ClaimInv, LastInv, FinInv, SweptInv, FinAwake, Swept
    <2>4. CycleInv'
        BY <2>1, <2>2 DEF ClaimInv, CycleInv, Held, Open, Holding, MasterActive
    <2> QED
        BY <2>3, <2>4 DEF ClaimInv
<1>3. CASE WorkerCrash
    <2>1. ~ MidRelease
        BY <1>3, NoSpend DEF WorkerCrash
    <2>2. UNCHANGED << status, startedOld, sess, force >> /\ tick' = IdleTick
        BY <1>3 DEF WorkerCrash
    <2>3. /\ \A s \in SessionIds, m \in Mailboxes : mbox'[s][m] \in { mbox[s][m], "stalled" }
          /\ \A s \in SessionIds, f \in Dispatchers : fin'[s][f] = fin[s][f] \/ fin'[s][f].pc = "stalled"
        BY EnvFrame
    <2>4. \A k \in Kinds : master'[k] = master[k] \/ master'[k].pc = "stalled"
        BY <1>3 DEF WorkerCrash, NoJob
    <2>5. Swept' = {} /\ tick'.pc = "idle"
        BY <2>2 DEF IdleTick, Swept
    <2>6. \A s \in SessionIds, f \in Dispatchers :
             FinAwake(s, f)' => FinAwake(s, f) /\ fin'[s][f].pc \in { "waiting", "write", "delete" }
        BY <2>3 DEF ClaimInv, FinInv, FinAwake, Resting
    <2>7. \A s \in SessionIds, m \in Mailboxes : mbox'[s][m] \in Lasts => mbox[s][m] \in Lasts
        BY <2>3 DEF Lasts
    <2>8. LastInv' /\ FinInv'
        BY <2>2, <2>5, <2>6, <2>7, LastKeeps DEF ClaimInv
    <2>9. SweptInv'
        BY <2>2 DEF SweptInv, IdleTick
    <2>10. \A s \in SessionIds : Open(s)' => Open(s)
        BY <2>1, <2>2 DEF Open, MidRelease, ClaimInv, SweptInv
    <2>11. \A j \in Kinds : (Holding(j)' => Holding(j)) /\ (MasterActive(j)' => MasterActive(j))
        BY <2>4 DEF Holding, MasterActive
    <2>12. CycleInv'
        BY <2>2, <2>5, <2>10, <2>11, CycleKeeps DEF ClaimInv
    <2> QED
        BY <2>8, <2>9, <2>12 DEF ClaimInv
<1> QED
    BY <1>1, <1>2, <1>3 DEF EnvNext

LEMMA TickClaims ==
    ASSUME Settled, ClaimInv, Env \subseteq Absorbed, TickNext
    PROVE  ClaimInv'
<1> TypeOK
    BY DEF Settled, IInv
<1>1. UNCHANGED << startedOld, mbox, force >>
    BY DEF TickNext, TickStart, TickRedispatch, TickFailSource, TickDeleteSession, TickSelectSessionless, TickProbe,
       TickRelease, TickSweepFail, TickDispatch
<1>2. /\ tick.pc # "delete" => tick.doomed = {}
      /\ \A s, t \in tick.doomed : s = t
      /\ tick.redo \cap tick.stuck = {}
      /\ \A s \in tick.redo \cup tick.stuck : sess[s].row /\ s \notin tick.doomed
    BY DEF ClaimInv, SweptInv
<1>3. ASSUME fin' = fin, sess' = sess, Swept' \subseteq Swept
      PROVE  LastInv' /\ FinInv'
    <2>1. \A t \in SessionIds, g \in Dispatchers :
             FinAwake(t, g)' => FinAwake(t, g) /\ fin'[t][g].pc \in { "waiting", "write", "delete" }
        BY <1>3 DEF ClaimInv, FinInv, FinAwake
    <2> QED
        BY <1>1, <1>3, <2>1, LastKeeps DEF ClaimInv
<1>4. CASE TickStart
    <2>1. UNCHANGED << status, sess, fin, master >>
        BY <1>4 DEF TickStart
    <2>2. tick.pc = "idle"
        BY <1>4 DEF TickStart
    <2>3. \A s \in SessionIds : ~ FinAwake(s, "sweep")
        BY <1>4, NoSpend DEF TickStart, FinAwake, Resting
    <2>4. \A s \in Swept' : sess[s].old
        BY <1>4, TickSets DEF Swept
    <2>5. LastInv'
        BY <1>1, <2>1 DEF ClaimInv, LastInv, FinAwake
    <2>6. FinInv'
        BY <2>1, <2>3, <2>4 DEF ClaimInv, FinInv, FinAwake
    <2>7. SweptInv'
        BY <1>4, <2>1, TickSets DEF SweptInv
    <2>8. \A s \in SessionIds : Open(s)' => Open(s)
        BY <1>2, <2>1, <2>2 DEF Open
    <2>9. CycleInv'
        BY <1>1, <1>4, <2>1, <2>8, TickSets, CycleKeeps DEF ClaimInv, Holding, MasterActive
    <2> QED
        BY <2>5, <2>6, <2>7, <2>9 DEF ClaimInv
<1>5. ASSUME NEW s \in SessionIds, TickRedispatch(s)
      PROVE  ClaimInv'
    <2>1. UNCHANGED << status, sess, master >>
        BY <1>5 DEF TickRedispatch
    <2>2. /\ tick.pc = "sweep" /\ tick'.pc = "sweep" /\ s \in tick.redo
          /\ tick'.redo = tick.redo \ {s} /\ tick'.stuck = tick.stuck /\ tick'.doomed = tick.doomed
        BY <1>5, TickSets
    <2>3. s \in Swept /\ s \notin Swept' /\ Swept' \subseteq Swept
        BY <1>2, <2>2 DEF Swept
    <2>4. /\ sess[s].row
          /\ \A f \in Dispatchers : ~ FinAwake(s, f)
        BY <1>2, <2>2, <2>3 DEF ClaimInv, FinInv
    <2>5. "sweep" \in Dispatchers
        BY DEF Dispatchers
    <2>6. /\ fin'[s]["sweep"] = fin[s]["sweep"] \/ fin'[s]["sweep"] = QueuedFin
          /\ \A t \in SessionIds, g \in Dispatchers : t # s \/ g # "sweep" => fin'[t][g] = fin[t][g]
        BY <1>5, <2>5 DEF TickRedispatch, TypeOK
    <2>7. \A m \in Mailboxes : mbox[s][m] \notin Lasts
        BY <2>3 DEF Settled, StaleIdle, Condemned, HasWork, Lasts, Resting
    <2>8. \A t \in SessionIds, g \in Dispatchers : t # s \/ g # "sweep" => (FinAwake(t, g)' <=> FinAwake(t, g))
        BY <2>6 DEF FinAwake
    <2>9. LastInv'
        BY <1>1, <2>1, <2>7, <2>8 DEF ClaimInv, LastInv
    <2>10. FinInv'
        <3>1. FinAwake(s, "sweep")' => fin'[s]["sweep"].pc = "waiting"
            BY <2>4, <2>5, <2>6 DEF FinAwake, QueuedFin
        <3> SUFFICES ASSUME NEW t \in SessionIds, NEW g \in Dispatchers, FinAwake(t, g)'
                     PROVE  /\ sess'[t].row /\ t \notin Swept'
                            /\ fin'[t][g].pc \in { "waiting", "write", "delete" }
                            /\ \A h \in Dispatchers : h # g => ~ FinAwake(t, h)'
                            /\ sess'[t].old => g = "sweep"
            BY DEF FinInv
        <3>2. CASE t = s
            <4>1. g = "sweep"
                BY <2>4, <2>8, <3>2
            <4> QED
                BY <2>1, <2>3, <2>4, <2>8, <3>1, <3>2, <4>1
        <3>3. CASE t # s
            <4>1. FinAwake(t, g) /\ fin'[t][g] = fin[t][g]
                BY <2>6, <2>8, <3>3
            <4> QED
                BY <2>1, <2>3, <2>8, <3>3, <4>1 DEF ClaimInv, FinInv
        <3> QED
            BY <3>2, <3>3
    <2>11. SweptInv'
        BY <1>2, <2>1, <2>2 DEF SweptInv
    <2>12. \A t \in SessionIds : Open(t)' => Open(t)
        <3>1. fin[s]["sweep"].pc # "delete"
            BY <2>4, <2>5 DEF FinAwake, Resting
        <3> QED
            BY <2>1, <2>2, <2>6, <3>1 DEF Open
    <2>13. CycleInv'
        BY <1>1, <2>1, <2>2, <2>12, CycleKeeps DEF ClaimInv, Holding, MasterActive
    <2> QED
        BY <2>9, <2>10, <2>11, <2>13 DEF ClaimInv
<1>6. ASSUME NEW s \in SessionIds, TickFailSource(s)
      PROVE  ClaimInv'
    <2>1. UNCHANGED << sess, fin, master >>
        BY <1>6 DEF TickFailSource
    <2>2. /\ tick.pc = "sweep" /\ tick'.pc = "delete" /\ s \in tick.stuck
          /\ tick'.redo = tick.redo /\ tick'.stuck = tick.stuck \ {s} /\ tick'.doomed = {s}
        BY <1>6, TickSets
    <2>3. Swept' \subseteq Swept /\ s \in Swept /\ tick.doomed = {}
        BY <1>2, <2>2 DEF Swept
    <2>4. LastInv' /\ FinInv'
        BY <1>3, <2>1, <2>3
    <2>5. SweptInv'
        BY <1>2, <2>1, <2>2 DEF SweptInv
    <2>6. Open(s)
        BY <1>2, <2>2, <2>3 DEF Open, ClaimInv, FinInv, FinAwake, Resting
    <2>7. ~ Open(s)' /\ \A t \in SessionIds : t # s => (Open(t)' <=> Open(t))
        BY <2>1, <2>2, <2>3 DEF Open
    <2>8. (\A t \in SessionIds : t # s => ~ Open(t)) /\ (\A k \in Kinds : ~ Holding(k))
        BY <2>6 DEF ClaimInv, CycleInv
    <2>9. ~ Held'
        <3>1. \A k \in Kinds : ~ Holding(k)'
            BY <2>1, <2>8 DEF Holding
        <3> QED
            BY <2>7, <2>8, <3>1 DEF Held
    <2>10. CycleInv'
        BY <1>1, <2>1, <2>2, <2>7, <2>8, <2>9, CycleKeeps DEF ClaimInv, Holding, MasterActive
    <2> QED
        BY <2>4, <2>5, <2>10 DEF ClaimInv
<1>7. ASSUME NEW s \in SessionIds, TickDeleteSession(s)
      PROVE  ClaimInv'
    <2>1. UNCHANGED << status, fin, master >> /\ DeleteSession(s)
        BY <1>7 DEF TickDeleteSession
    <2>2. /\ tick.pc = "delete" /\ tick'.pc = "sweep" /\ s \in tick.doomed
          /\ tick'.redo = tick.redo /\ tick'.stuck = tick.stuck /\ tick'.doomed = {}
        BY <1>7, TickSets
    <2>3. sess'[s] = NoRow /\ \A t \in SessionIds : t # s => sess'[t] = sess[t]
        BY <2>1 DEF DeleteSession, TypeOK
    <2>4. Swept' \subseteq Swept /\ s \in Swept
        BY <2>2 DEF Swept
    <2>5. /\ \A f \in Dispatchers : ~ FinAwake(s, f)
          /\ \A m \in Mailboxes : mbox[s][m] \notin Lasts
        BY <2>4 DEF ClaimInv, FinInv, Settled, StaleIdle, Condemned, HasWork, Lasts, Resting
    <2>6. \A t \in SessionIds, g \in Dispatchers :
             FinAwake(t, g)' => FinAwake(t, g) /\ fin'[t][g].pc \in { "waiting", "write", "delete" }
        BY <2>1 DEF ClaimInv, FinInv, FinAwake
    <2>7. \A t \in SessionIds : sess'[t].old => sess[t].old
        BY <2>3 DEF NoRow
    <2>8. /\ \A f \in Dispatchers : ~ FinAwake(s, f)'
          /\ \A m \in Mailboxes : mbox'[s][m] \notin Lasts
        BY <1>1, <2>1, <2>5 DEF FinAwake
    <2>9. LastInv' /\ FinInv'
        BY <1>1, <2>3, <2>4, <2>6, <2>7, <2>8, LastKeeps DEF ClaimInv
    <2>10. tick'.redo \cup tick'.stuck \subseteq SessionIds
        BY <2>2 DEF TypeOK
    <2>11. SweptInv'
        BY <1>2, <2>2, <2>3, <2>10 DEF SweptInv
    <2>12. \A t \in SessionIds : Open(t)' => Open(t)
        BY <1>2, <2>1, <2>2, <2>3 DEF Open, NoRow
    <2>13. CycleInv'
        BY <1>1, <2>1, <2>2, <2>12, CycleKeeps DEF ClaimInv, Holding, MasterActive
    <2> QED
        BY <2>9, <2>11, <2>13 DEF ClaimInv
<1>8. ASSUME TickSelectSessionless \/ TickProbe \/ TickRelease \/ TickDispatch
      PROVE  ClaimInv'
    <2>1. UNCHANGED << sess, fin >>
        BY <1>8 DEF TickSelectSessionless, TickProbe, TickRelease, TickDispatch
    <2>2. /\ tick'.redo \subseteq tick.redo /\ tick'.stuck \subseteq tick.stuck /\ tick'.doomed \subseteq tick.doomed
          /\ tick.pc # "delete"
        BY <1>8, TickSets DEF TickDispatch
    <2>3. Swept' \subseteq Swept
        BY <2>2 DEF Swept
    <2>4. LastInv' /\ FinInv'
        BY <1>3, <2>1, <2>3
    <2>5. SweptInv'
        BY <1>2, <2>1, <2>2 DEF SweptInv
    <2>6. \A s \in SessionIds : Open(s)' => Open(s)
        BY <1>2, <2>1, <2>2 DEF Open
    <2>7. CASE TickSelectSessionless
        <3>1. UNCHANGED << status, master >>
            BY <2>7 DEF TickSelectSessionless
        <3>2. CASE tick'.pc \in { "probe", "free" }
            <4>1. status \in MidCycle /\ startedOld /\ \A s \in SessionIds : ~ sess[s].row
                <5>1. tick' = [tick EXCEPT !.pc = "dispatch"] => tick'.pc = "dispatch"
                    BY DEF TypeOK
                <5> QED
                    BY <2>7, <3>2, <5>1 DEF TickSelectSessionless
            <4>2. \A s \in SessionIds : ~ Open(s)
                BY <4>1 DEF Open
            <4>3. \A k \in Kinds : ~ Holding(k)
                BY <4>1 DEF ClaimInv, CycleInv, Holding, MasterActive
            <4>4. (\A s \in SessionIds : ~ Open(s)') /\ (\A k \in Kinds : ~ Holding(k)')
                BY <2>6, <3>1, <4>2, <4>3 DEF Holding
            <4> QED
                BY <1>1, <2>4, <2>5, <3>1, <4>1, <4>4 DEF ClaimInv, CycleInv, Held, MasterActive
        <3>3. CASE tick'.pc \notin { "probe", "free" }
            <4>1. CycleInv'
                BY <1>1, <2>6, <3>1, <3>3, CycleKeeps DEF ClaimInv, Holding, MasterActive
            <4> QED
                BY <2>4, <2>5, <4>1 DEF ClaimInv
        <3> QED
            BY <3>2, <3>3
    <2>8. CASE TickProbe
        <3>1. UNCHANGED << status, master >> /\ tick.pc = "probe"
            BY <2>8 DEF TickProbe
        <3>2. CycleInv'
            BY <1>1, <2>6, <3>1, CycleKeeps DEF ClaimInv, Holding, MasterActive
        <3> QED
            BY <2>4, <2>5, <3>2 DEF ClaimInv
    <2>9. CASE TickRelease
        <3>1. master' = master /\ tick.pc = "free"
            BY <2>9 DEF TickRelease
        <3>2. tick'.pc = "dispatch"
            BY <2>9 DEF TickRelease, TypeOK
        <3>3. ~ Held
            BY <3>1 DEF ClaimInv, CycleInv
        <3>4. ~ Held'
            BY <2>6, <3>1, <3>3 DEF Held, Holding
        <3>5. CycleInv'
            BY <1>1, <2>6, <3>1, <3>2, <3>4, CycleKeeps DEF ClaimInv, Holding, MasterActive
        <3> QED
            BY <2>4, <2>5, <3>5 DEF ClaimInv
    <2>10. CASE TickDispatch
        <3>1. status' = status /\ tick'.pc = "idle"
            BY <2>10 DEF TickDispatch, IdleTick
        <3>2. \A j \in Kinds : master'[j] = master[j] \/ master'[j].pc = "waiting"
            BY <2>10, AddMasterPcs DEF TickDispatch, Kinds
        <3>3. \A j \in Kinds : (Holding(j)' => Holding(j)) /\ (MasterActive(j)' => MasterActive(j))
            BY <3>2 DEF Holding, MasterActive
        <3>4. CycleInv'
            BY <1>1, <2>6, <3>1, <3>3, CycleKeeps DEF ClaimInv
        <3> QED
            BY <2>4, <2>5, <3>4 DEF ClaimInv
    <2> QED
        BY <1>8, <2>7, <2>8, <2>9, <2>10
<1>9. ~ TickSweepFail
    BY NoSpend DEF TickSweepFail
<1> QED
    BY <1>4, <1>5, <1>6, <1>7, <1>8, <1>9 DEF TickNext

LEMMA StepClaim ==
    ASSUME Settled, ClaimInv, Env \subseteq Absorbed, [Next]_vars
    PROVE  ClaimInv'
<1>1. CASE UNCHANGED vars
    <2>1. LastInv' /\ FinInv' /\ SweptInv'
        BY <1>1 DEF vars, ClaimInv, LastInv, FinInv, SweptInv, FinAwake, Swept
    <2>2. CycleInv'
        BY <1>1 DEF vars, ClaimInv, CycleInv, Held, Open, Holding, MasterActive
    <2> QED
        BY <2>1, <2>2 DEF ClaimInv
<1> QED
    BY <1>1, MasterClaims, MailboxClaims, FinClaims, TickClaims, OperatorClaims, EnvClaims DEF Next

\* A session with mailboxes to archive holds the source.
LEMMA WorkingIsOpen ==
    ASSUME Settled, ClaimInv, NEW s \in SessionIds, Working(s)
    PROVE  Open(s)
<1>1. PICK m \in Mailboxes : mbox[s][m] \in { "waiting", "running" }
    BY DEF Working
<1>2. m \in Pending(s) /\ HasWork(s, m)
    BY <1>1 DEF Pending, HasWork, Resting
<1>3. sess[s].row
    BY <1>2 DEF Settled, PendingRow
<1>4. s \notin tick.doomed
    BY <1>2 DEF Settled, StaleIdle, Condemned, Swept
<1>5. \A f \in Dispatchers : fin[s][f].pc # "delete"
    BY <1>2, SawAllNotPending DEF FinAwake, Resting
<1> QED
    BY <1>3, <1>4, <1>5 DEF Open

\* Two sessions of a source never have mailboxes to archive at the same time:
\* whichever workers die, listings, claims, catch blocks and reports throw, and
\* imports are triggered.  The claim's conditional UPDATE alone does not give
\* it: the sweep, the rescue and the finalizers must release a source only when
\* nobody holds it any more.
THEOREM OneCycleAlways == Env \subseteq Absorbed => (Spec => []OneCycle)
<1> SUFFICES ASSUME Env \subseteq Absorbed PROVE Spec => []OneCycle
    OBVIOUS
<1>1. "starve" \notin Env /\ Env \cap { "starve", "mergeFail", "dispatchFail" } = {}
    BY DEF Absorbed
<1>2. Spec => [](StaleIdle /\ TodoEnqueue)
    BY <1>1, WorkInvariant
<1>3. Spec => [](CountInv /\ PendingRow)
    BY <1>1, CountInvariant
<1>4. Settled /\ ClaimInv /\ [Next]_vars => ClaimInv'
    BY StepClaim
<1>5. Settled /\ ClaimInv => OneCycle
    BY WorkingIsOpen DEF ClaimInv, CycleInv, OneCycle
<1>6. IInv /\ StaleIdle /\ TodoEnqueue /\ CountInv /\ PendingRow <=> Settled
    BY DEF Settled
<1> QED
    BY <1>2, <1>3, <1>4, <1>5, <1>6, InitClaim, Invariant, PTL DEF Spec
=============================================================================
