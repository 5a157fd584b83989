-------------------------- MODULE SearchIndexProofs --------------------------
(***************************************************************************)
(* What the indexing jobs guarantee, for any number of emails, concurrent  *)
(* jobs, retries and events, and any chunk, batch and page sizes.          *)
(***************************************************************************)
EXTENDS SearchIndex, FiniteSetTheorems, SequenceTheorems, TLAPS

-----------------------------------------------------------------------------
(* Sequences of jobs *)

LEMMA RemoveAtType ==
    ASSUME NEW S, NEW s \in Seq(S), NEW i \in 1 .. Len(s)
    PROVE  RemoveAt(s, i) \in Seq(S)
<1>1. SubSeq(s, 1, i - 1) \in Seq(S)
  BY SubSeqProperties
<1>2. SubSeq(s, i + 1, Len(s)) \in Seq(S)
  BY SubSeqProperties
<1> QED
  BY <1>1, <1>2, ConcatProperties DEF RemoveAt

\* The three sequences of jobs, as the steps of the queue change them.
LEMMA QueueSteps ==
    ASSUME NEW S, NEW s \in Seq(S), NEW job \in S
    PROVE  /\ Append(s, job) \in Seq(S)
           /\ << job >> \o s \in Seq(S)
           /\ s # << >> => Tail(s) \in Seq(S) /\ Head(s) \in S
<1>1. << job >> \in Seq(S)
  OBVIOUS
<1> QED
  BY <1>1, ConcatProperties, HeadTailProperties, AppendProperties
-----------------------------------------------------------------------------
(* Types *)

LEMMA FirstOfType == \A n, S : FirstOf(n, S) \subseteq S
  BY DEF FirstOf

LEMMA NewJobsType ==
    /\ Reconcile \in Jobs
    /\ \A ids \in SUBSET Emails :
           /\ Batch(ids) \in Jobs
           /\ \A mode \in { "rebuild", "missing" } : Reindex(mode, ids) \in Jobs
<1>1. 0 \in 0 .. JobAttempts
  BY ConstantsAssumption
<1> QED
  BY <1>1 DEF Reconcile, Batch, Reindex, Jobs, JobNames

LEMMA FreeType == Free \in Runs /\ NoFlush \in Flushes
<1>1. 0 \in 0 .. PageCap - 1
  BY ConstantsAssumption
<1> QED
  BY <1>1, NewJobsType DEF Free, Runs, RunPc, BatchPc, NoFlush, Flushes, FlushPc

LEMMA InitTypeOK == Init => TypeOK
<1> SUFFICES ASSUME Init PROVE TypeOK
  OBVIOUS
<1>1. /\ run \in [Workers -> Runs] /\ flush \in [Workers -> Flushes]
  BY FreeType DEF Init
<1>2. events \in 0 .. Budget
  BY ConstantsAssumption DEF Init
<1>3. { waiting, delayed, stalled } \subseteq Seq(Jobs)
  BY DEF Init
<1> QED
  BY <1>1, <1>2, <1>3 DEF Init, TypeOK

LEMMA ReleaseType ==
    ASSUME TypeOK, NEW w \in Workers, Release(w)
    PROVE  run' \in [Workers -> Runs] /\ flush' \in [Workers -> Flushes]
  BY FreeType DEF Release, TypeOK

LEMMA GotoType ==
    ASSUME TypeOK, NEW w \in Workers, NEW pc \in RunPc, Goto(w, pc)
    PROVE  run' \in [Workers -> Runs]
<1>1. run \in [Workers -> Runs]
  BY DEF TypeOK
<1>2. [run[w] EXCEPT !.pc = pc] \in Runs
  BY <1>1 DEF Runs
<1>3. run' = [run EXCEPT ![w] = [run[w] EXCEPT !.pc = pc]]
  BY DEF Goto
<1> QED
  BY <1>1, <1>2, <1>3

LEMMA HappensType ==
    ASSUME TypeOK, NEW kind, Happens(kind)
    PROVE  events' \in 0 .. Budget
  BY ConstantsAssumption DEF Happens, TypeOK

LEMMA WriteType ==
    ASSUME TypeOK, NEW S \in SUBSET Emails, Write(S)
    PROVE  /\ docs' \subseteq Emails /\ { owed', gone' } \subseteq SUBSET Emails
           /\ asked' \in [Workers -> SUBSET Emails]
  BY DEF Write, TypeOK

LEMMA RecordType ==
    ASSUME TypeOK, NEW S \in SUBSET Emails
    PROVE  /\ Mark(S) => isIndexed' \subseteq rows
           /\ Count(S) => attempts' \in [Emails -> Nat]
  BY DEF Mark, Count, TypeOK

LEMMA QueueType ==
    ASSUME TypeOK
    PROVE  /\ waiting \in Seq(Jobs) /\ delayed \in Seq(Jobs) /\ stalled \in Seq(Jobs)
           /\ \A w \in Workers : run[w].job \in Jobs /\ run[w] \in Runs
  BY DEF TypeOK, Runs

\* A retried job keeps its type, and so does one that stalled.
LEMMA AgainType ==
    ASSUME NEW job \in Jobs
    PROVE  /\ Again(job) \in Jobs
           /\ [job EXCEPT !.tries = @ + 1].tries < Attempts([job EXCEPT !.tries = @ + 1])
                  => [job EXCEPT !.tries = @ + 1] \in Jobs
<1>1. Attempts([job EXCEPT !.tries = @ + 1]) \in 1 .. JobAttempts
  BY ConstantsAssumption DEF Attempts
<1>2. job.tries \in 0 .. JobAttempts /\ JobAttempts \in Nat
  BY ConstantsAssumption DEF Jobs
<1> QED
  BY <1>1, <1>2 DEF Again, Jobs

LEMMA ThrowType ==
    ASSUME TypeOK, NEW w \in Workers, Throw(w)
    PROVE  /\ run' \in [Workers -> Runs] /\ flush' \in [Workers -> Flushes]
           /\ delayed' \in Seq(Jobs)
<1> DEFINE job == [run[w].job EXCEPT !.tries = @ + 1]
<1>1. run[w].job \in Jobs /\ delayed \in Seq(Jobs)
  BY QueueType
<1>2. CASE run[w].ghost \/ job.tries >= Attempts(job)
  BY <1>1, <1>2, ReleaseType DEF Throw
<1>3. CASE ~ (run[w].ghost \/ job.tries >= Attempts(job))
  <2>1. job.tries \in Nat /\ Attempts(job) \in Nat
    BY <1>1, ConstantsAssumption DEF Jobs, Attempts
  <2>2. job \in Jobs
    BY <1>1, <1>3, <2>1, AgainType
  <2>3. delayed' = Append(delayed, job)
    BY <1>3 DEF Throw
  <2> QED
    BY <1>1, <2>2, <2>3, ReleaseType, QueueSteps DEF Throw
<1> QED
  BY <1>2, <1>3

\* What a chunk is made into.
LEMMA BuildStep ==
    ASSUME TypeOK, NEW w \in Workers, BuildChunk(w)
    PROVE  \E missed \in SUBSET FirstOf(ChunkSize, run[w].rest) :
              /\ unread' = [e \in Emails |-> IF e \in missed THEN unread[e] + 1 ELSE unread[e]]
              /\ run'[w].unbuilt = FirstOf(ChunkSize, run[w].rest)
                      \ ((FirstOf(ChunkSize, run[w].rest) \cap rows) \ (Unbuildable \cup missed))
<1>0. run \in [Workers -> Runs] /\ run[w] \in Runs
  BY DEF TypeOK
<1> QED
  BY <1>0 DEF BuildChunk, Runs

LEMMA BuildKeeps ==
    ASSUME TypeOK, NEW w \in Workers, BuildChunk(w)
    PROVE  /\ run' \in [Workers -> Runs] /\ unread' \in [Emails -> Nat]
           /\ run'[w].pc = "collect" /\ run'[w].rest \subseteq run[w].rest
           /\ run'[w].job = run[w].job /\ run'[w].ghost = run[w].ghost
<1>0. run \in [Workers -> Runs] /\ run[w] \in Runs /\ unread \in [Emails -> Nat]
  BY DEF TypeOK
<1> DEFINE chunk == FirstOf(ChunkSize, run[w].rest)
<1>1. chunk \subseteq Emails
  BY <1>0, FirstOfType DEF Runs
<1>2. PICK missed \in SUBSET chunk :
         /\ unread' = [e \in Emails |-> IF e \in missed THEN unread[e] + 1 ELSE unread[e]]
         /\ run' = [run EXCEPT ![w].pc = "collect", ![w].rest = @ \ chunk,
                               ![w].built = (chunk \cap rows) \ (Unbuildable \cup missed),
                               ![w].unbuilt = chunk \ ((chunk \cap rows) \ (Unbuildable \cup missed))]
  BY DEF BuildChunk
<1> HIDE DEF chunk
<1>3. PICK built \in SUBSET Emails :
         run' = [run EXCEPT ![w] = [run[w] EXCEPT !.pc = "collect", !.rest = @ \ chunk,
                                      !.built = built, !.unbuilt = chunk \ built]]
  BY <1>0, <1>1, <1>2
<1>4. /\ run'[w].pc = "collect" /\ run'[w].rest = run[w].rest \ chunk
      /\ run'[w].job = run[w].job /\ run'[w].ghost = run[w].ghost
  BY <1>0, <1>3 DEF Runs
<1>5. run' \in [Workers -> Runs]
  BY <1>0, <1>1, <1>3 DEF Runs, RunPc, BatchPc
<1>6. unread' \in [Emails -> Nat]
  BY <1>0, <1>2
<1> QED
  BY <1>4, <1>5, <1>6

LEMMA BatchTypeOK ==
    ASSUME TypeOK, NEW w \in Workers,
           BuildChunk(w) \/ Collect(w) \/ FinishBatch(w) \/ FailBatch(w) \/ Send(w)
           \/ MarkIndexed(w) \/ Isolate(w) \/ Record(w) \/ EngineTrouble(w)
    PROVE  TypeOK'
<1> USE DEF TypeOK, rowVars, docVars, queueVars
<1>0. run[w] \in Runs /\ flush[w] \in Flushes
  OBVIOUS
<1>1. CASE BuildChunk(w)
  <2>1. run' \in [Workers -> Runs] /\ unread' \in [Emails -> Nat]
    BY <1>1, BuildKeeps
  <2>2. events' \in 0 .. Budget
    <3>1. UNCHANGED events \/ Happens("unread")
      BY <1>1 DEF BuildChunk
    <3> QED
      BY <3>1, HappensType
  <2> QED
    BY <1>1, <2>1, <2>2 DEF BuildChunk
<1>2. CASE Collect(w)
  <2>1. run' = [run EXCEPT ![w] = [run[w] EXCEPT !.pc = "build", !.built = {}, !.unbuilt = {}]]
    BY <1>2 DEF Collect
  <2>2. run' \in [Workers -> Runs]
    BY <1>0, <2>1 DEF Runs, RunPc, BatchPc
  <2>3. [NoFlush EXCEPT !.pc = "send", !.docs = run[w].built] \in Flushes
    BY <1>0 DEF Runs, NoFlush, Flushes, FlushPc
  <2>4. flush' \in [Workers -> Flushes]
    BY <1>2, <2>3 DEF Collect
  <2>5. attempts' \in [Emails -> Nat]
    BY <1>0, <1>2, RecordType DEF Collect, Runs
  <2> QED
    BY <1>2, <2>2, <2>4, <2>5 DEF Collect
<1>3. CASE FinishBatch(w)
  <2>1. run' \in [Workers -> Runs] /\ flush' \in [Workers -> Flushes]
    BY <1>3, ReleaseType DEF FinishBatch, Complete
  <2> QED
    BY <1>3, <2>1 DEF FinishBatch, Complete
<1>4. CASE FailBatch(w)
  <2>1. run' \in [Workers -> Runs] /\ flush' \in [Workers -> Flushes] /\ delayed' \in Seq(Jobs)
    BY <1>4, ThrowType DEF FailBatch
  <2> QED
    BY <1>4, <2>1 DEF FailBatch, Throw
<1>5. CASE Send(w)
  <2> DEFINE to(pc) == [flush[w] EXCEPT !.pc = pc]
  <2>0. to("mark") \in Flushes /\ to("isolate") \in Flushes
    BY <1>0 DEF Flushes, FlushPc
  <2>1. flush' \in [Workers -> Flushes]
    <3>1. flush' = [flush EXCEPT ![w] = to("mark")] \/ flush' = [flush EXCEPT ![w] = to("isolate")]
      BY <1>5 DEF Send
    <3> HIDE DEF to
    <3> QED
      BY <2>0, <3>1
  <2>2. \/ Write(flush[w].docs)
        \/ UNCHANGED docVars
    BY <1>5 DEF Send
  <2>3. /\ docs' \subseteq Emails /\ { owed', gone' } \subseteq SUBSET Emails
        /\ asked' \in [Workers -> SUBSET Emails]
    BY <1>0, <2>2, WriteType DEF Flushes
  <2> QED
    BY <1>5, <2>1, <2>3 DEF Send
<1>6. CASE MarkIndexed(w)
  <2>1. flush' \in [Workers -> Flushes]
    BY <1>6, FreeType DEF MarkIndexed
  <2>2. isIndexed' \subseteq rows
    BY <1>0, <1>6, RecordType DEF MarkIndexed, Flushes
  <2> QED
    BY <1>6, <2>1, <2>2 DEF MarkIndexed
<1>7. CASE Isolate(w)
  <2> DEFINE first == FirstOf(1, flush[w].docs)
             next == IF flush[w].docs = first THEN "record" ELSE "isolate"
  <2>1. first \subseteq Emails
    BY <1>0, FirstOfType DEF Flushes
  <2>2. \/ /\ Write(first)
           /\ flush' = [flush EXCEPT ![w] = [flush[w] EXCEPT !.docs = @ \ first, !.ok = @ \cup first,
                                                 !.pc = next]]
        \/ /\ UNCHANGED docVars
           /\ flush' = [flush EXCEPT ![w] = [flush[w] EXCEPT !.docs = @ \ first,
                                                 !.refused = @ \cup first, !.pc = next]]
    BY <1>7 DEF Isolate
  <2>3. flush' \in [Workers -> Flushes]
    <3>1. next \in FlushPc
      BY DEF FlushPc
    <3> HIDE DEF first, next
    <3>2. /\ [flush[w] EXCEPT !.docs = @ \ first, !.ok = @ \cup first, !.pc = next] \in Flushes
          /\ [flush[w] EXCEPT !.docs = @ \ first, !.refused = @ \cup first, !.pc = next] \in Flushes
      BY <1>0, <2>1, <3>1 DEF Flushes
    <3> QED
      BY <2>2, <3>2
  <2>4. /\ docs' \subseteq Emails /\ { owed', gone' } \subseteq SUBSET Emails
        /\ asked' \in [Workers -> SUBSET Emails]
    BY <2>1, <2>2, WriteType
  <2> QED
    BY <1>7, <2>3, <2>4 DEF Isolate
<1>8. CASE Record(w)
  <2>1. flush' \in [Workers -> Flushes]
    BY <1>8, FreeType DEF Record, Flushes, FlushPc
  <2>2. isIndexed' \subseteq rows /\ attempts' \in [Emails -> Nat]
    BY <1>0, <1>8, RecordType DEF Record, Flushes
  <2> QED
    BY <1>8, <2>1, <2>2 DEF Record
<1>9. CASE EngineTrouble(w)
  <2>1. flush' \in [Workers -> Flushes]
    BY <1>0, <1>9 DEF EngineTrouble, Flushes, FlushPc
  <2>2. \/ UNCHANGED docVars
        \/ \E sent \in SUBSET Emails : Write(sent)
    BY <1>0, <1>9, FirstOfType DEF EngineTrouble, Flushes
  <2>3. /\ docs' \subseteq Emails /\ { owed', gone' } \subseteq SUBSET Emails
        /\ asked' \in [Workers -> SUBSET Emails]
    BY <2>2, WriteType
  <2>4. events' \in 0 .. Budget
    BY <1>9, HappensType DEF EngineTrouble
  <2> QED
    BY <1>9, <2>1, <2>3, <2>4 DEF EngineTrouble
<1> QED
  BY <1>1, <1>2, <1>3, <1>4, <1>5, <1>6, <1>7, <1>8, <1>9

LEMMA TakeTypeOK ==
    ASSUME TypeOK, NEW w \in Workers, Take(w)
    PROVE  TypeOK'
<1> DEFINE job == Head(waiting)
           taken == [Free EXCEPT !.pc = FirstPc(job), !.job = job, !.rest = job.ids \ isIndexed]
<1>1. job \in Jobs /\ Tail(waiting) \in Seq(Jobs)
  BY QueueType, QueueSteps DEF Take
<1>2. FirstPc(job) \in RunPc
  BY <1>1 DEF FirstPc, Jobs, JobNames, RunPc, BatchPc
<1>3. taken \in Runs
  <2> HIDE DEF job
  <2>1. job.ids \subseteq Emails
    BY <1>1 DEF Jobs
  <2> QED
    BY <1>1, <1>2, <2>1, FreeType DEF Runs, Free
<1>4. run' = [run EXCEPT ![w] = taken]
  BY DEF Take
<1>5. run' \in [Workers -> Runs]
  <2> HIDE DEF taken
  <2> QED
    BY <1>3, <1>4 DEF TypeOK
<1>6. asked' \in [Workers -> SUBSET Emails]
  BY DEF Take, TypeOK
<1> QED
  BY <1>1, <1>5, <1>6 DEF Take, TypeOK, rowVars

LEMMA ScanTypeOK ==
    ASSUME TypeOK, NEW w \in Workers, Scan(w)
    PROVE  TypeOK'
<1> DEFINE page == FirstOf(BatchSize, Backlog(w))
           capped == run[w].job.name = "reconcile-index" /\ run[w].pages + 1 = PageCap
           pages == IF run[w].job.name = "reconcile-index" THEN run[w].pages + 1 ELSE run[w].pages
           onward == [run[w] EXCEPT !.past = UpTo(page), !.pages = pages]
<1>1. page \subseteq Emails
  BY FirstOfType DEF Backlog, TypeOK
<1>2. Append(waiting, Batch(page)) \in Seq(Jobs)
  BY <1>1, NewJobsType, QueueType, QueueSteps
<1>3. \/ page = {} /\ Complete(w)
      \/ /\ waiting' = Append(waiting, Batch(page)) /\ UNCHANGED << delayed, stalled >>
         /\ Release(w)
      \/ /\ waiting' = Append(waiting, Batch(page)) /\ UNCHANGED << delayed, stalled, flush >>
         /\ run' = [run EXCEPT ![w] = onward]
         /\ ~capped
  BY DEF Scan
<1>4. ~capped => onward \in Runs
  <2>1. run[w] \in Runs /\ PageCap \in Nat \ {0}
    BY QueueType, ConstantsAssumption
  <2>2. ~capped => pages \in 0 .. PageCap - 1
    BY <2>1 DEF Runs
  <2>3. UpTo(page) \subseteq Emails
    BY DEF UpTo
  <2> HIDE DEF pages, page, capped
  <2> QED
    BY <2>1, <2>2, <2>3 DEF Runs
<1>5. run' \in [Workers -> Runs] /\ flush' \in [Workers -> Flushes]
  <2> HIDE DEF onward, capped, page
  <2> QED
    BY <1>3, <1>4, ReleaseType DEF Complete, TypeOK
<1>6. { waiting', delayed', stalled' } \subseteq Seq(Jobs)
  BY <1>2, <1>3, QueueType DEF Complete, queueVars
<1> QED
  BY <1>5, <1>6 DEF Scan, TypeOK, rowVars, docVars

LEMMA WaitTypeOK ==
    ASSUME TypeOK, NEW w \in Workers, IdleWait(w) \/ Check(w) \/ Reset(w) \/ Stall(w)
    PROVE  TypeOK'
<1> USE DEF rowVars, docVars, queueVars
<1>0. { "reset", "scan" } \subseteq RunPc
  BY DEF RunPc
<1>1. CASE IdleWait(w)
  <2>1. run' \in [Workers -> Runs]
    BY <1>0, <1>1, GotoType DEF IdleWait
  <2>2. events' \in 0 .. Budget /\ hurried' \in BOOLEAN
    BY <1>1, HappensType DEF IdleWait, TypeOK
  <2> QED
    BY <1>1, <2>1, <2>2 DEF IdleWait, TypeOK
<1>2. CASE Check(w)
  <2>1. /\ run' \in [Workers -> Runs] /\ flush' \in [Workers -> Flushes]
        /\ UNCHANGED queueVars
    BY <1>0, <1>2, GotoType, ReleaseType DEF Check, Complete, TypeOK
  <2> QED
    BY <1>2, <2>1 DEF Check, TypeOK
<1>3. CASE Reset(w)
  <2>1. run' \in [Workers -> Runs]
    BY <1>0, <1>3, GotoType DEF Reset
  <2>2. isIndexed' \subseteq rows /\ attempts' \in [Emails -> Nat]
    BY <1>3 DEF Reset, TypeOK
  <2>3. asked' \in [Workers -> SUBSET Emails] /\ owed' \subseteq Emails
    BY <1>3 DEF Reset, TypeOK
  <2> QED
    BY <1>3, <2>1, <2>2, <2>3 DEF Reset, TypeOK
<1>4. CASE Stall(w)
  <2>1. run' = [run EXCEPT ![w] = [run[w] EXCEPT !.ghost = TRUE]]
    BY <1>4 DEF Stall
  <2>2. run' \in [Workers -> Runs]
    BY <2>1, QueueType, ZenonT(60) DEF TypeOK, Runs
  <2>3. waiting' \in Seq(Jobs)
    BY <1>4, QueueType, QueueSteps, AgainType DEF Stall
  <2>4. events' \in 0 .. Budget
    BY <1>4, HappensType DEF Stall
  <2> QED
    BY <1>4, <2>2, <2>3, <2>4 DEF Stall, TypeOK
<1> QED
  BY <1>1, <1>2, <1>3, <1>4

LEMMA CrashQueue ==
    ASSUME TypeOK, Crash, NEW S, \A u \in Active : run[u].job \in S
    PROVE  \E ghosts \in Seq(S) : stalled' = stalled \o ghosts
<1>1. PICK order \in SetToSeqs(Active) :
          stalled' = stalled \o [ i \in 1 .. Len(order) |-> run[order[i]].job ]
  BY DEF Crash
<1>2. Cardinality(Active) \in Nat
  BY ConstantsAssumption, FS_Subset, FS_CardinalityType DEF Active
<1>3. order \in [1 .. Cardinality(Active) -> Active]
  BY <1>1 DEF SetToSeqs
<1>4. order \in Seq(Active)
  BY <1>2, <1>3
<1>5. [ i \in 1 .. Len(order) |-> run[order[i]].job ] \in Seq(S)
  <2>1. Len(order) \in Nat /\ \A i \in 1 .. Len(order) : run[order[i]].job \in S
    BY <1>4
  <2> QED
    BY <2>1
<1> QED
  BY <1>1, <1>5

LEMMA NextTypeOK == TypeOK /\ [Next]_vars => TypeOK'
<1> SUFFICES ASSUME TypeOK, [Next]_vars PROVE TypeOK'
  OBVIOUS
<1> USE DEF rowVars, docVars, queueVars
<1>1. CASE \E w \in Workers : WorkerNext(w) \/ EngineTrouble(w) \/ Stall(w)
  BY <1>1, BatchTypeOK, TakeTypeOK, ScanTypeOK, WaitTypeOK DEF WorkerNext
<1>2. CASE Promote
  <2>1. PICK i \in 1 .. Len(delayed) : /\ waiting' = Append(waiting, delayed[i])
                                       /\ delayed' = RemoveAt(delayed, i)
    BY <1>2 DEF Promote
  <2>2. delayed[i] \in Jobs
    BY <2>1, QueueType
  <2>3. waiting' \in Seq(Jobs) /\ delayed' \in Seq(Jobs)
    BY <2>1, <2>2, QueueType, QueueSteps, RemoveAtType
  <2> QED
    BY <1>2, <2>3 DEF Promote, TypeOK
<1>3. CASE Requeue
  <2>1. Head(stalled) \in Jobs /\ Tail(stalled) \in Seq(Jobs)
    BY <1>3, QueueType, QueueSteps DEF Requeue
  <2>2. waiting' \in Seq(Jobs)
    BY <1>3, <2>1, QueueType, QueueSteps, AgainType DEF Requeue
  <2> QED
    BY <1>3, <2>1, <2>2 DEF Requeue, TypeOK
<1>4. CASE Tick
  <2>1. waiting' \in Seq(Jobs)
    BY <1>4, NewJobsType, QueueType, QueueSteps DEF Tick
  <2> QED
    BY <1>4, <2>1 DEF Tick, TypeOK
<1>5. CASE Crash
  <2>1. stalled' \in Seq(Jobs)
    <3>1. \A u \in Active : run[u].job \in Jobs
      BY QueueType DEF Active
    <3>2. PICK ghosts \in Seq(Jobs) : stalled' = stalled \o ghosts
      BY <1>5, <3>1, CrashQueue
    <3> QED
      BY <3>2, QueueType, ConcatProperties
  <2>2. events' \in 0 .. Budget
    BY <1>5, HappensType DEF Crash
  <2>3. run' \in [Workers -> Runs] /\ flush' \in [Workers -> Flushes]
    BY <1>5, FreeType DEF Crash
  <2> QED
    BY <1>5, <2>1, <2>2, <2>3 DEF Crash, TypeOK
<1>6. CASE \E S \in Batches : Archive(S)
  <2>1. PICK S \in Batches : Archive(S)
    BY <1>6
  <2>2. S \subseteq Emails
    BY ConstantsAssumption
  <2>3. waiting' \in Seq(Jobs)
    BY <2>1, <2>2, NewJobsType, QueueType, QueueSteps DEF Archive
  <2>4. events' \in 0 .. Budget
    BY <2>1, HappensType DEF Archive, TypeOK
  <2>5. rows' \subseteq Emails /\ deleted \subseteq Emails \ rows' /\ isIndexed \subseteq rows'
        /\ deleting \subseteq rows'
    BY <2>1, <2>2 DEF Archive, TypeOK
  <2> QED
    BY <2>1, <2>3, <2>4, <2>5 DEF Archive, TypeOK
<1>7. CASE \E mode \in { "rebuild", "missing" }, scope \in Scopes : Request(mode, scope)
  <2>1. PICK mode \in { "rebuild", "missing" }, scope \in Scopes : Request(mode, scope)
    BY <1>7
  <2>2. scope \subseteq Emails
    BY ConstantsAssumption
  <2>3. Reindex(mode, scope) \in Jobs
    BY <2>2, NewJobsType
  <2>4. waiting' \in Seq(Jobs) /\ events' \in 0 .. Budget
    BY <2>1, <2>3, QueueType, QueueSteps, HappensType DEF Request
  <2> QED
    BY <2>1, <2>4 DEF Request, TypeOK
<1>8. CASE \E e \in Emails : DeleteDocument(e) \/ DeleteRow(e) \/ AbortDelete(e) \/ Wipe(e)
  <2>1. PICK e \in Emails : DeleteDocument(e) \/ DeleteRow(e) \/ AbortDelete(e) \/ Wipe(e)
    BY <1>8
  <2>2. CASE DeleteDocument(e)
    <3>1. events' \in 0 .. Budget
      BY <2>2, HappensType DEF DeleteDocument
    <3> QED
      BY <2>2, <3>1 DEF DeleteDocument, TypeOK
  <2>3. CASE DeleteRow(e)
    BY <2>3 DEF DeleteRow, TypeOK
  <2>4. CASE AbortDelete(e)
    <3>1. events' \in 0 .. Budget
      BY <2>4 DEF AbortDelete, TypeOK
    <3> QED
      BY <2>4, <3>1 DEF AbortDelete, TypeOK
  <2>5. CASE Wipe(e)
    <3>1. events' \in 0 .. Budget
      BY <2>5, HappensType DEF Wipe
    <3> QED
      BY <2>5, <3>1 DEF Wipe, TypeOK
  <2> QED
    BY <2>1, <2>2, <2>3, <2>4, <2>5
<1>9. CASE UNCHANGED vars
  BY <1>9 DEF vars, TypeOK
<1> QED
  BY <1>1, <1>2, <1>3, <1>4, <1>5, <1>6, <1>7, <1>8, <1>9 DEF Next

\* The rows, the documents, the queue and the slots of the worker keep their types.
THEOREM TypeCorrect == Spec => []TypeOK
  BY InitTypeOK, NextTypeOK, PTL DEF Spec

-----------------------------------------------------------------------------
(* What a step of the system does to the documents of a chunk in flight that
   have been written and not yet marked. *)

Settled(w) == flush[w].ok \cup (IF flush[w].pc = "mark" THEN flush[w].docs ELSE {})

\* The chunk in flight of a slot: as it was, gone, new, or one step further.
LEMMA FlushStep ==
    ASSUME TypeOK, [Next]_vars, NEW w \in Workers
    PROVE  \/ flush'[w] = flush[w]
           \/ flush'[w] = NoFlush
           \/ flush'[w] = [NoFlush EXCEPT !.pc = "failed"]
           \/ flush'[w] = [NoFlush EXCEPT !.pc = "send", !.docs = run[w].built]
           \/ Send(w) \/ Isolate(w) \/ EngineTrouble(w)
<1>0. flush \in [Workers -> Flushes]
  BY DEF TypeOK
<1>1. ASSUME NEW v \in Workers, WorkerNext(v) \/ EngineTrouble(v) \/ Stall(v)
      PROVE  \/ flush'[w] = flush[w]
             \/ flush'[w] = NoFlush
             \/ flush'[w] = [NoFlush EXCEPT !.pc = "failed"]
             \/ flush'[w] = [NoFlush EXCEPT !.pc = "send", !.docs = run[w].built]
             \/ Send(w) \/ Isolate(w) \/ EngineTrouble(w)
  <2>1. CASE Send(v) \/ Isolate(v) \/ EngineTrouble(v)
    <3>1. v # w => flush'[w] = flush[w]
      BY <1>0, <2>1 DEF Send, Isolate, EngineTrouble
    <3> QED
      BY <2>1, <3>1
  <2>2. CASE \/ Take(v) \/ BuildChunk(v) \/ IdleWait(v) \/ Reset(v) \/ Stall(v)
    BY <2>2 DEF Take, BuildChunk, IdleWait, Reset, Stall
  <2>3. CASE Collect(v) \/ MarkIndexed(v) \/ Record(v)
    BY <1>0, <2>3 DEF Collect, MarkIndexed, Record
  <2>4. CASE FinishBatch(v) \/ FailBatch(v) \/ Check(v) \/ Scan(v)
    <3>1. Release(v) \/ UNCHANGED flush
      BY <2>4 DEF FinishBatch, FailBatch, Check, Scan, Complete, Throw
    <3> QED
      BY <1>0, <3>1 DEF Release
  <2> QED
    BY <1>1, <2>1, <2>2, <2>3, <2>4 DEF WorkerNext
<1>2. CASE Crash
  BY <1>2 DEF Crash
<1>3. CASE \/ Promote \/ Requeue \/ Tick
           \/ \E S \in Batches : Archive(S)
           \/ \E mode \in { "rebuild", "missing" }, scope \in Scopes : Request(mode, scope)
           \/ \E e \in Emails : DeleteDocument(e) \/ DeleteRow(e) \/ AbortDelete(e) \/ Wipe(e)
           \/ UNCHANGED vars
  BY <1>3 DEF Promote, Requeue, Tick, Archive, Request, DeleteDocument, DeleteRow, AbortDelete,
              Wipe, vars
<1> QED
  BY <1>1, <1>2, <1>3 DEF Next

\* A document is settled by a write.
LEMMA SettledStep ==
    ASSUME TypeOK, [Next]_vars, NEW w \in Workers
    PROVE  \/ Settled(w)' \subseteq Settled(w)
           \/ \E S \in SUBSET Emails : Write(S) /\ Settled(w)' \subseteq Settled(w) \cup S
<1>0. /\ Settled(w)' = flush'[w].ok \cup (IF flush'[w].pc = "mark" THEN flush'[w].docs ELSE {})
      /\ flush \in [Workers -> Flushes]
  BY DEF Settled, TypeOK
<1>1. CASE flush'[w] = flush[w]
  BY <1>0, <1>1 DEF Settled
<1>2. CASE \/ flush'[w] = NoFlush
           \/ flush'[w] = [NoFlush EXCEPT !.pc = "failed"]
           \/ flush'[w] = [NoFlush EXCEPT !.pc = "send", !.docs = run[w].built]
  <2>1. flush'[w].ok = {} /\ flush'[w].pc # "mark"
    <3>1. NoFlush.ok = {} /\ NoFlush.pc # "mark"
      BY DEF NoFlush
    <3>2. LET failed == [NoFlush EXCEPT !.pc = "failed"] IN failed.ok = {} /\ failed.pc # "mark"
      BY DEF NoFlush
    <3>3. LET sent == [NoFlush EXCEPT !.pc = "send", !.docs = run[w].built] IN
              sent.ok = {} /\ sent.pc # "mark"
      BY DEF NoFlush
    <3> QED
      BY <1>2, <3>1, <3>2, <3>3
  <2>2. Settled(w)' = {}
    BY <1>0, <2>1
  <2> QED
    BY <2>2
<1>3. CASE Send(w)
  <2>1. CASE Write(flush[w].docs) /\ flush' = [flush EXCEPT ![w].pc = "mark"]
    <3>1. Settled(w)' = flush[w].ok \cup flush[w].docs
      BY <1>0, <2>1 DEF Flushes
    <3>2. flush[w].docs \in SUBSET Emails
      BY <1>0 DEF Flushes
    <3> QED
      BY <2>1, <3>1, <3>2 DEF Settled
  <2>2. CASE flush' = [flush EXCEPT ![w].pc = "isolate"]
    BY <1>0, <2>2 DEF Settled, Flushes
  <2> QED
    BY <1>3, <2>1, <2>2 DEF Send
<1>4. CASE Isolate(w)
  <2> DEFINE first == FirstOf(1, flush[w].docs)
             next == IF flush[w].docs = first THEN "record" ELSE "isolate"
  <2>1. next # "mark"
    OBVIOUS
  <2>2. first \in SUBSET Emails
    BY <1>0, FirstOfType DEF Flushes
  <2>3. \/ Write(first) /\ flush' = [flush EXCEPT ![w].docs = @ \ first, ![w].ok = @ \cup first,
                                                  ![w].pc = next]
        \/ flush' = [flush EXCEPT ![w].docs = @ \ first, ![w].refused = @ \cup first,
                                  ![w].pc = next]
    BY <1>4 DEF Isolate
  <2> HIDE DEF first, next
  <2>4. CASE Write(first) /\ flush' = [flush EXCEPT ![w].docs = @ \ first, ![w].ok = @ \cup first,
                                                    ![w].pc = next]
    <3>1. Settled(w)' = flush[w].ok \cup first
      BY <1>0, <2>1, <2>4 DEF Flushes
    <3> QED
      BY <2>2, <2>4, <3>1 DEF Settled
  <2>5. CASE flush' = [flush EXCEPT ![w].docs = @ \ first, ![w].refused = @ \cup first,
                                    ![w].pc = next]
    <3>1. Settled(w)' = flush[w].ok
      BY <1>0, <2>1, <2>5 DEF Flushes
    <3> QED
      BY <3>1 DEF Settled
  <2> QED
    BY <2>3, <2>4, <2>5
<1>5. CASE EngineTrouble(w)
  <2>1. flush'[w].ok = flush[w].ok /\ flush'[w].pc \in { "failed", "recordFailed" }
    BY <1>0, <1>5 DEF EngineTrouble, Flushes
  <2> QED
    BY <1>0, <2>1 DEF Settled
<1> QED
  BY <1>1, <1>2, <1>3, <1>4, <1>5, FlushStep

\* A row is marked after its document settled.
LEMMA IndexedStep ==
    ASSUME TypeOK, [Next]_vars
    PROVE  isIndexed' \subseteq isIndexed \cup UNION { Settled(w) : w \in Workers }
<1> USE DEF rowVars
<1>1. ASSUME NEW v \in Workers, WorkerNext(v) \/ EngineTrouble(v) \/ Stall(v)
      PROVE  isIndexed' \subseteq isIndexed \cup Settled(v)
  <2>1. CASE MarkIndexed(v) \/ Record(v)
    BY <2>1 DEF MarkIndexed, Record, Mark, Settled
  <2>2. CASE Reset(v)
    BY <2>2 DEF Reset
  <2>3. CASE \/ Take(v) \/ BuildChunk(v) \/ Collect(v) \/ FinishBatch(v) \/ FailBatch(v) \/ Send(v)
             \/ Isolate(v) \/ IdleWait(v) \/ Check(v) \/ Scan(v) \/ EngineTrouble(v) \/ Stall(v)
    BY <2>3 DEF Take, BuildChunk, Collect, FinishBatch, FailBatch, Send, Isolate, IdleWait, Check,
                Scan, EngineTrouble, Stall
  <2> QED
    BY <1>1, <2>1, <2>2, <2>3 DEF WorkerNext
<1>2. CASE \/ Promote \/ Requeue \/ Tick \/ Crash
           \/ \E S \in Batches : Archive(S)
           \/ \E mode \in { "rebuild", "missing" }, scope \in Scopes : Request(mode, scope)
           \/ \E e \in Emails : DeleteDocument(e) \/ DeleteRow(e) \/ AbortDelete(e) \/ Wipe(e)
           \/ UNCHANGED vars
  BY <1>2 DEF Promote, Requeue, Tick, Crash, Archive, Request, DeleteDocument, DeleteRow,
              AbortDelete, Wipe, vars
<1> QED
  BY <1>1, <1>2 DEF Next

-----------------------------------------------------------------------------
(* is_indexed is honest. *)

MarkInv ==
    /\ isIndexed \subseteq docs \cup gone
    /\ \A w \in Workers : Settled(w) \subseteq docs \cup gone

\* A document leaves the engine only as one that is accounted for.
LEMMA DocsStep ==
    ASSUME TypeOK, [Next]_vars
    PROVE  docs \cup gone \subseteq docs' \cup gone'
<1> USE DEF docVars
<1>1. ASSUME NEW v \in Workers, WorkerNext(v) \/ EngineTrouble(v) \/ Stall(v)
      PROVE  UNCHANGED << docs, gone >> \/ \E S : Write(S)
  <2>1. CASE Send(v) \/ Isolate(v) \/ EngineTrouble(v)
    BY <2>1 DEF Send, Isolate, EngineTrouble
  <2>2. CASE \/ Take(v) \/ BuildChunk(v) \/ Collect(v) \/ FinishBatch(v) \/ FailBatch(v)
             \/ MarkIndexed(v) \/ Record(v) \/ IdleWait(v) \/ Reset(v) \/ Check(v) \/ Scan(v)
             \/ Stall(v)
    BY <2>2 DEF Take, BuildChunk, Collect, FinishBatch, FailBatch, MarkIndexed, Record, IdleWait,
                Reset, Check, Scan, Stall
  <2> QED
    BY <1>1, <2>1, <2>2 DEF WorkerNext
<1>2. CASE \/ Promote \/ Requeue \/ Tick \/ Crash
           \/ \E S \in Batches : Archive(S)
           \/ \E mode \in { "rebuild", "missing" }, scope \in Scopes : Request(mode, scope)
           \/ \E e \in Emails : DeleteDocument(e) \/ DeleteRow(e) \/ AbortDelete(e) \/ Wipe(e)
           \/ UNCHANGED vars
  BY <1>2 DEF Promote, Requeue, Tick, Crash, Archive, Request, DeleteDocument, DeleteRow,
              AbortDelete, Wipe, vars
<1> QED
  BY <1>1, <1>2 DEF Next, Write

LEMMA InitMarkInv == Init => MarkInv
  BY DEF Init, MarkInv, Settled, NoFlush

LEMMA NextMarkInv == TypeOK /\ MarkInv /\ [Next]_vars => MarkInv'
<1> SUFFICES ASSUME TypeOK, MarkInv, [Next]_vars PROVE MarkInv'
  OBVIOUS
<1>1. ASSUME NEW w \in Workers PROVE Settled(w)' \subseteq docs' \cup gone'
  BY SettledStep, DocsStep DEF MarkInv, Write
<1>2. isIndexed' \subseteq docs' \cup gone'
  BY IndexedStep, DocsStep DEF MarkInv
<1> QED
  BY <1>1, <1>2 DEF MarkInv

\* A row that reads as indexed has its document, unless the engine lost it or a
\* deletion withdrew it: whatever fails, crashes or is answered too late.
THEOREM IndexedSearchable == Spec => []IndexedMeansSearchable
<1>1. MarkInv => IndexedMeansSearchable
  BY DEF MarkInv, IndexedMeansSearchable
<1> QED
  BY <1>1, InitMarkInv, NextMarkInv, TypeCorrect, PTL DEF Spec

-----------------------------------------------------------------------------
(* What a step does to a slot of the worker. *)

LEMMA RunStep ==
    ASSUME TypeOK, [Next]_vars, NEW w \in Workers
    PROVE  \/ run'[w] = run[w]
           \/ run'[w] = Free
           \/ Take(w) \/ BuildChunk(w) \/ Collect(w)
           \/ IdleWait(w) \/ Reset(w) \/ Check(w) \/ Scan(w) \/ Stall(w)
<1>0. run \in [Workers -> Runs]
  BY DEF TypeOK
<1>1. ASSUME NEW v \in Workers, WorkerNext(v) \/ EngineTrouble(v) \/ Stall(v), v # w
      PROVE  run'[w] = run[w]
  <2>1. CASE \/ Take(v) \/ BuildChunk(v) \/ Collect(v) \/ IdleWait(v) \/ Reset(v) \/ Stall(v)
    BY <1>0, <1>1, <2>1 DEF Take, BuildChunk, Collect, IdleWait, Reset, Stall, Goto
  <2>2. CASE Send(v) \/ MarkIndexed(v) \/ Isolate(v) \/ Record(v) \/ EngineTrouble(v)
    BY <2>2 DEF Send, MarkIndexed, Isolate, Record, EngineTrouble
  <2>3. CASE FinishBatch(v) \/ FailBatch(v)
    <3>1. Release(v)
      BY <2>3 DEF FinishBatch, FailBatch, Complete, Throw
    <3> QED
      BY <1>0, <1>1, <3>1 DEF Release
  <2>4. CASE Check(v) \/ Scan(v)
    BY <1>0, <1>1, <2>4 DEF Check, Scan, Complete, Release, Goto
  <2> QED
    BY <1>1, <2>1, <2>2, <2>3, <2>4 DEF WorkerNext
<1>2. CASE FinishBatch(w) \/ FailBatch(w)
  <2>1. Release(w)
    BY <1>2 DEF FinishBatch, FailBatch, Complete, Throw
  <2> QED
    BY <1>0, <2>1 DEF Release
<1>3. CASE Send(w) \/ MarkIndexed(w) \/ Isolate(w) \/ Record(w) \/ EngineTrouble(w)
  BY <1>3 DEF Send, MarkIndexed, Isolate, Record, EngineTrouble
<1>4. CASE Crash
  BY <1>4 DEF Crash
<1>5. CASE \/ Promote \/ Requeue \/ Tick
           \/ \E S \in Batches : Archive(S)
           \/ \E mode \in { "rebuild", "missing" }, scope \in Scopes : Request(mode, scope)
           \/ \E e \in Emails : DeleteDocument(e) \/ DeleteRow(e) \/ AbortDelete(e) \/ Wipe(e)
           \/ UNCHANGED vars
  BY <1>5 DEF Promote, Requeue, Tick, Archive, Request, DeleteDocument, DeleteRow, AbortDelete,
              Wipe, vars
<1> QED
  BY <1>1, <1>2, <1>3, <1>4, <1>5 DEF Next, WorkerNext

\* Of the slots that do not index a batch, what a step leaves of the job.
LEMMA OtherStep ==
    ASSUME TypeOK, NEW w \in Workers,
           IdleWait(w) \/ Reset(w) \/ Check(w) \/ Scan(w) \/ Stall(w)
    PROVE  \/ run'[w] = Free
           \/ /\ run'[w].job = run[w].job /\ run'[w].rest = run[w].rest
              /\ run'[w].unbuilt = run[w].unbuilt
              /\ \/ run'[w].pc = run[w].pc
                 \/ IdleWait(w) /\ run'[w].pc = "reset"
                 \/ run'[w].pc = "scan"
<1>0. run \in [Workers -> Runs] /\ run[w] \in Runs
  BY DEF TypeOK
<1>1. CASE Release(w)
  BY <1>0, <1>1 DEF Release
<1>2. ASSUME NEW pc, Goto(w, pc)
      PROVE  /\ run'[w].job = run[w].job /\ run'[w].rest = run[w].rest
             /\ run'[w].unbuilt = run[w].unbuilt /\ run'[w].pc = pc
  BY <1>0, <1>2 DEF Goto, Runs
<1>3. CASE Stall(w)
  BY <1>0, <1>3 DEF Runs, Stall
<1>4. CASE Scan(w)
  <2>1. CASE Release(w)
    BY <1>1, <2>1
  <2>2. CASE run' = [run EXCEPT ![w].past = UpTo(FirstOf(BatchSize, Backlog(w))),
                                ![w].pages = IF run[w].job.name = "reconcile-index"
                                             THEN @ + 1 ELSE @]
    BY <1>0, <2>2 DEF Runs
  <2> QED
    BY <1>4, <2>1, <2>2 DEF Scan, Complete
<1>5. CASE IdleWait(w)
  BY <1>2, <1>5 DEF IdleWait
<1>6. CASE Reset(w)
  BY <1>2, <1>6 DEF Reset
<1>7. CASE Check(w)
  BY <1>1, <1>2, <1>7 DEF Check, Complete
<1> QED
  BY <1>3, <1>4, <1>5, <1>6, <1>7

-----------------------------------------------------------------------------
(* A job names emails that were archived; they are there or deleted. *)

Archived == rows \cup deleted
Named(S) == { job \in Jobs : job.name = "index-email-batch" => job.ids \subseteq S }

NamedInv ==
    /\ { waiting, delayed, stalled } \subseteq Seq(Named(Archived))
    /\ \A w \in Workers : run[w].job \in Named(Archived)

LEMMA RowsStep ==
    ASSUME TypeOK, [Next]_vars
    PROVE  /\ Archived \subseteq Archived' /\ deleted \subseteq deleted'
           /\ Named(Archived) \subseteq Named(Archived')
<1> USE DEF rowVars
<1>1. ASSUME NEW v \in Workers, WorkerNext(v) \/ EngineTrouble(v) \/ Stall(v)
      PROVE  UNCHANGED << rows, deleted >>
  BY <1>1 DEF WorkerNext, EngineTrouble, Stall, Take, BuildChunk, Collect, FinishBatch, FailBatch,
              Send, MarkIndexed, Isolate, Record, IdleWait, Reset, Check, Scan
<1>2. CASE \/ Promote \/ Requeue \/ Tick \/ Crash
           \/ \E S \in Batches : Archive(S)
           \/ \E mode \in { "rebuild", "missing" }, scope \in Scopes : Request(mode, scope)
           \/ \E e \in Emails : DeleteDocument(e) \/ DeleteRow(e) \/ AbortDelete(e) \/ Wipe(e)
           \/ UNCHANGED vars
  <2>1. rows \cup deleted \subseteq rows' \cup deleted' /\ deleted \subseteq deleted'
    BY <1>2 DEF Promote, Requeue, Tick, Crash, Archive, Request, DeleteDocument, DeleteRow,
                AbortDelete, Wipe, vars
  <2> QED
    BY <2>1 DEF Archived, Named
<1> QED
  BY <1>1, <1>2 DEF Next, Archived

LEMMA Widen ==
    ASSUME NEW S, NEW T, S \subseteq T, NEW s \in Seq(S)
    PROVE  s \in Seq(T)
  OBVIOUS

LEMMA NewJobsNamed ==
    ASSUME TypeOK
    PROVE  /\ Reconcile \in Named(Archived)
           /\ \A ids \in SUBSET Emails :
                  /\ ids \subseteq Archived => Batch(ids) \in Named(Archived)
                  /\ \A mode \in { "rebuild", "missing" } : Reindex(mode, ids) \in Named(Archived)
           /\ \A job \in Named(Archived) :
                  /\ Again(job) \in Named(Archived)
                  /\ [job EXCEPT !.tries = @ + 1] \in Jobs
                         => [job EXCEPT !.tries = @ + 1] \in Named(Archived)
<1>1. Reconcile \in Named(Archived)
  BY NewJobsType DEF Reconcile, Named
<1>2. ASSUME NEW ids \in SUBSET Emails
      PROVE  /\ ids \subseteq Archived => Batch(ids) \in Named(Archived)
             /\ \A mode \in { "rebuild", "missing" } : Reindex(mode, ids) \in Named(Archived)
  BY NewJobsType DEF Batch, Reindex, Named
<1>3. ASSUME NEW job \in Named(Archived)
      PROVE  /\ Again(job) \in Named(Archived)
             /\ [job EXCEPT !.tries = @ + 1] \in Jobs
                    => [job EXCEPT !.tries = @ + 1] \in Named(Archived)
  <2>1. Again(job) \in Jobs
    BY <1>3, AgainType DEF Named
  <2>2. Again(job).name = job.name /\ Again(job).ids = job.ids
    BY DEF Again, Named, Jobs
  <2>3. [job EXCEPT !.tries = @ + 1].name = job.name /\ [job EXCEPT !.tries = @ + 1].ids = job.ids
    BY DEF Named, Jobs
  <2> QED
    BY <2>1, <2>2, <2>3 DEF Named
<1> QED
  BY <1>1, <1>2, <1>3

LEMMA NamedThrow ==
    ASSUME TypeOK, NamedInv, NEW w \in Workers, Throw(w)
    PROVE  delayed' \in Seq(Named(Archived))
<1> DEFINE job == [run[w].job EXCEPT !.tries = @ + 1]
<1>1. run[w].job \in Jobs /\ run[w].job \in Named(Archived) /\ delayed \in Seq(Named(Archived))
  BY QueueType DEF NamedInv
<1>2. CASE run[w].ghost \/ job.tries >= Attempts(job)
  BY <1>1, <1>2 DEF Throw
<1>3. CASE ~ (run[w].ghost \/ job.tries >= Attempts(job))
  <2>1. job.tries \in Nat /\ Attempts(job) \in Nat
    BY <1>1, ConstantsAssumption DEF Jobs, Attempts
  <2>2. job \in Named(Archived)
    BY <1>1, <1>3, <2>1, AgainType, NewJobsNamed
  <2>3. delayed' = Append(delayed, job)
    BY <1>3 DEF Throw
  <2> QED
    BY <1>1, <2>2, <2>3, QueueSteps
<1> QED
  BY <1>2, <1>3

LEMMA InitNamedInv == Init => NamedInv
<1> SUFFICES ASSUME Init PROVE NamedInv
  OBVIOUS
<1>1. Reconcile \in Named(Archived)
  BY InitTypeOK, NewJobsNamed
<1>2. Free.job = Reconcile
  BY DEF Free
<1> QED
  BY <1>1, <1>2 DEF Init, NamedInv

\* The jobs of the slots.
LEMMA NamedRunStep ==
    ASSUME TypeOK, NamedInv, [Next]_vars, NEW w \in Workers
    PROVE  run'[w].job \in Named(Archived')
<1>1. run[w].job \in Named(Archived) /\ Named(Archived) \subseteq Named(Archived')
  BY RowsStep DEF NamedInv
<1>2. CASE run'[w] = Free
  <2>1. Free.job = Reconcile
    BY DEF Free
  <2> QED
    BY <1>1, <1>2, <2>1, NewJobsNamed
<1>3. CASE Take(w)
  <2>1. Head(waiting) \in Named(Archived)
    BY <1>3, QueueSteps DEF NamedInv, Take
  <2>2. run'[w].job = Head(waiting)
    BY <1>3 DEF Take, TypeOK, Free
  <2> QED
    BY <1>1, <2>1, <2>2
<1>4. CASE BuildChunk(w) \/ Collect(w)
  <2>1. run'[w].job = run[w].job
    BY <1>4, BuildKeeps DEF Collect, TypeOK, Runs
  <2> QED
    BY <1>1, <2>1
<1>5. CASE IdleWait(w) \/ Reset(w) \/ Check(w) \/ Scan(w) \/ Stall(w)
  BY <1>1, <1>2, <1>5, OtherStep
<1> QED
  BY <1>1, <1>2, <1>3, <1>4, <1>5, RunStep

\* Those of the queue, against the rows before the step.
LEMMA NamedQueueStep ==
    ASSUME TypeOK, NamedInv, [Next]_vars, ~ \E S \in Batches : Archive(S)
    PROVE  { waiting', delayed', stalled' } \subseteq Seq(Named(Archived))
<1> DEFINE K == Named(Archived)
<1>0. /\ waiting \in Seq(K) /\ delayed \in Seq(K) /\ stalled \in Seq(K)
      /\ \A w \in Workers : run[w].job \in K
  BY DEF NamedInv
<1>1. ASSUME UNCHANGED queueVars
      PROVE  { waiting', delayed', stalled' } \subseteq Seq(K)
  BY <1>0, <1>1 DEF queueVars
<1>2. ASSUME NEW w \in Workers, WorkerNext(w) \/ EngineTrouble(w) \/ Stall(w)
      PROVE  { waiting', delayed', stalled' } \subseteq Seq(K)
  <2>1. CASE Take(w)
    BY <1>0, <2>1, QueueSteps DEF Take
  <2>2. CASE FailBatch(w)
    BY <1>0, <2>2, NamedThrow DEF FailBatch, Throw
  <2>3. CASE Scan(w)
    <3>1. FirstOf(BatchSize, Backlog(w)) \subseteq Archived
      BY FirstOfType DEF Backlog, Archived
    <3>2. FirstOf(BatchSize, Backlog(w)) \in SUBSET Emails
      BY <3>1 DEF TypeOK, Archived
    <3>3. Append(waiting, Batch(FirstOf(BatchSize, Backlog(w)))) \in Seq(K)
      BY <1>0, <3>1, <3>2, NewJobsNamed, QueueSteps
    <3> QED
      BY <1>0, <2>3, <3>3 DEF Scan, Complete, queueVars
  <2>4. CASE Stall(w)
    BY <1>0, <2>4, NewJobsNamed, QueueSteps DEF Stall
  <2>5. CASE \/ BuildChunk(w) \/ Collect(w) \/ FinishBatch(w) \/ Send(w) \/ MarkIndexed(w)
             \/ Isolate(w) \/ Record(w) \/ IdleWait(w) \/ Reset(w) \/ Check(w) \/ EngineTrouble(w)
    <3>1. UNCHANGED queueVars
      BY <2>5 DEF BuildChunk, Collect, FinishBatch, Send, MarkIndexed, Isolate, Record, IdleWait,
                  Reset, Check, EngineTrouble, Complete
    <3> QED
      BY <1>1, <3>1
  <2> QED
    BY <1>2, <2>1, <2>2, <2>3, <2>4, <2>5 DEF WorkerNext
<1>3. CASE Promote
  <2>1. PICK i \in 1 .. Len(delayed) : /\ waiting' = Append(waiting, delayed[i])
                                       /\ delayed' = RemoveAt(delayed, i)
    BY <1>3 DEF Promote
  <2>2. delayed[i] \in K
    BY <1>0, <2>1
  <2> QED
    BY <1>0, <1>3, <2>1, <2>2, QueueSteps, RemoveAtType DEF Promote
<1>4. CASE Requeue
  <2>1. Head(stalled) \in K /\ Tail(stalled) \in Seq(K)
    BY <1>0, <1>4, QueueSteps DEF Requeue
  <2>2. waiting' \in Seq(K)
    BY <1>0, <1>4, <2>1, NewJobsNamed, QueueSteps DEF Requeue
  <2> QED
    BY <1>0, <1>4, <2>1, <2>2 DEF Requeue
<1>5. CASE Tick
  BY <1>0, <1>5, NewJobsNamed, QueueSteps DEF Tick
<1>6. CASE Crash
  <2>1. PICK ghosts \in Seq(K) : stalled' = stalled \o ghosts
    BY <1>0, <1>6, CrashQueue DEF Active
  <2>2. stalled \o ghosts \in Seq(K)
    <3> HIDE DEF K
    <3> QED
      BY <1>0, <2>1, ConcatProperties
  <2> QED
    BY <1>0, <1>6, <2>1, <2>2 DEF Crash
<1>7. CASE \E mode \in { "rebuild", "missing" }, scope \in Scopes : Request(mode, scope)
  <2>1. PICK mode \in { "rebuild", "missing" }, scope \in Scopes : Request(mode, scope)
    BY <1>7
  <2>2. Reindex(mode, scope) \in K
    BY ConstantsAssumption, NewJobsNamed
  <2> QED
    BY <1>0, <2>1, <2>2, QueueSteps DEF Request
<1>8. CASE \/ \E e \in Emails : DeleteDocument(e) \/ DeleteRow(e) \/ AbortDelete(e) \/ Wipe(e)
           \/ UNCHANGED vars
  BY <1>1, <1>8 DEF DeleteDocument, DeleteRow, AbortDelete, Wipe, vars
<1> QED
  BY <1>2, <1>3, <1>4, <1>5, <1>6, <1>7, <1>8 DEF Next

LEMMA NextNamedInv == TypeOK /\ NamedInv /\ [Next]_vars => NamedInv'
<1> SUFFICES ASSUME TypeOK, NamedInv, [Next]_vars PROVE NamedInv'
  OBVIOUS
<1> DEFINE L == Named(Archived')
<1>1. TypeOK' /\ Named(Archived) \subseteq L
  BY NextTypeOK, RowsStep
<1>2. CASE \E S \in Batches : Archive(S)
  <2>1. PICK S \in Batches : Archive(S)
    BY <1>2
  <2>2. S \in SUBSET Emails /\ S \subseteq Archived'
    BY <2>1, ConstantsAssumption DEF Archive, Archived
  <2>3. Batch(S) \in L
    BY <2>2, NewJobsType DEF Named, Batch
  <2>4. waiting \in Seq(L) /\ delayed \in Seq(L) /\ stalled \in Seq(L)
    BY <1>1, Widen DEF NamedInv
  <2>5. waiting' \in Seq(L)
    BY <2>1, <2>3, <2>4, QueueSteps DEF Archive
  <2>6. { waiting', delayed', stalled' } \subseteq Seq(L)
    BY <2>1, <2>4, <2>5 DEF Archive
  <2> QED
    BY <2>6, NamedRunStep DEF NamedInv
<1>3. CASE ~ \E S \in Batches : Archive(S)
  <2>1. { waiting', delayed', stalled' } \subseteq Seq(L)
    BY <1>1, <1>3, NamedQueueStep, Widen
  <2> QED
    BY <2>1, NamedRunStep DEF NamedInv
<1> QED
  BY <1>2, <1>3

-----------------------------------------------------------------------------
(* index_attempts counts what a message itself did wrong. *)

\* The slots that have yet to count a message.
Pending(e) == { w \in Workers : e \in run[w].unbuilt }

CountInv ==
    /\ \A w \in Workers : run[w].pc \in BatchPc => run[w].rest \subseteq Archived
    /\ \A w \in Workers : flush[w].refused \subseteq Refused
    /\ \A e \in Good \ deleted : attempts[e] + Cardinality(Pending(e)) <= unread[e]

LEMMA PendingType ==
    ASSUME NEW e
    PROVE  /\ IsFiniteSet(Pending(e)) /\ Cardinality(Pending(e)) \in Nat
           /\ Cardinality(Pending(e)') \in Nat
<1>1. IsFiniteSet(Pending(e)) /\ IsFiniteSet(Pending(e)')
  BY ConstantsAssumption, FS_Subset DEF Pending
<1> QED
  BY <1>1, FS_CardinalityType

\* indexDocumentsIndividually sends one document at a time.
LEMMA FirstIsOne ==
    ASSUME NEW S \in SUBSET Emails, NEW a \in FirstOf(1, S), NEW b \in FirstOf(1, S)
    PROVE  a = b
<1>1. ASSUME NEW c \in FirstOf(1, S), NEW d \in S
      PROVE  ~ d < c
  <2>1. IsFiniteSet({ x \in S : x < c })
    BY ConstantsAssumption, FS_Subset
  <2>2. Cardinality({ x \in S : x < c }) = 0
    BY <2>1, FS_CardinalityType DEF FirstOf
  <2> QED
    BY <2>1, <2>2, FS_EmptySet
<1> QED
  BY <1>1, ConstantsAssumption DEF FirstOf

LEMMA InitCountInv == Init => CountInv
<1> SUFFICES ASSUME Init PROVE CountInv
  OBVIOUS
<1>1. ASSUME NEW e \in Good PROVE attempts[e] + Cardinality(Pending(e)) <= unread[e]
  <2>1. Pending(e) = {}
    BY DEF Pending, Init, Free
  <2> QED
    BY <2>1, FS_EmptySet DEF Init, Good
<1> QED
  BY <1>1 DEF Init, CountInv, Free, NoFlush, BatchPc

LEMMA CountRunStep ==
    ASSUME TypeOK, NamedInv, CountInv, [Next]_vars, NEW w \in Workers
    PROVE  run'[w].pc \in BatchPc => run'[w].rest \subseteq Archived'
<1>0. /\ run \in [Workers -> Runs] /\ run[w] \in Runs
      /\ Archived \subseteq Archived' /\ deleted \subseteq deleted'
  BY RowsStep DEF TypeOK
<1>1. CASE run'[w] = run[w]
  BY <1>0, <1>1 DEF CountInv
<1>2. CASE run'[w] = Free
  BY <1>2 DEF Free, BatchPc
<1>3. CASE Take(w)
  <2> DEFINE job == Head(waiting)
  <2>1. job \in Named(Archived)
    BY <1>3, QueueSteps DEF NamedInv, Take
  <2>2. run'[w].pc = FirstPc(job) /\ run'[w].rest = job.ids \ isIndexed /\ run'[w].unbuilt = {}
    BY <1>0, <1>3 DEF Take, Free
  <2>3. FirstPc(job) \in BatchPc => job.name = "index-email-batch"
    BY <2>1 DEF FirstPc, BatchPc, Named, Jobs, JobNames
  <2> QED
    BY <1>0, <2>1, <2>2, <2>3 DEF Named
<1>4. CASE BuildChunk(w)
  <2>1. run'[w].rest \subseteq run[w].rest
    BY <1>4, BuildKeeps
  <2>2. run[w].rest \subseteq Archived
    BY <1>4 DEF BuildChunk, CountInv, BatchPc
  <2> QED
    BY <1>0, <2>1, <2>2
<1>5. CASE Collect(w)
  <2>1. run'[w].rest = run[w].rest /\ run'[w].unbuilt = {}
    BY <1>0, <1>5 DEF Collect, Runs
  <2> QED
    BY <1>0, <1>5, <2>1 DEF Collect, CountInv, BatchPc
<1>6. CASE IdleWait(w) \/ Reset(w) \/ Check(w) \/ Scan(w) \/ Stall(w)
  <2>1. \/ run'[w] = Free
        \/ /\ run'[w].rest = run[w].rest /\ run'[w].unbuilt = run[w].unbuilt
           /\ run'[w].pc \in { run[w].pc, "reset", "scan" }
    BY <1>6, OtherStep
  <2> QED
    BY <1>0, <1>2, <2>1 DEF CountInv, BatchPc
<1> QED
  BY <1>1, <1>2, <1>3, <1>4, <1>5, <1>6, RunStep

LEMMA CountFlushStep ==
    ASSUME TypeOK, CountInv, [Next]_vars, NEW w \in Workers
    PROVE  flush'[w].refused \subseteq Refused
<1>0. /\ flush \in [Workers -> Flushes] /\ flush[w] \in Flushes
      /\ flush[w].refused \subseteq Refused
  BY DEF TypeOK, CountInv
<1>1. CASE flush'[w] = flush[w]
  BY <1>0, <1>1
<1>2. CASE \/ flush'[w] = NoFlush
           \/ flush'[w] = [NoFlush EXCEPT !.pc = "failed"]
           \/ flush'[w] = [NoFlush EXCEPT !.pc = "send", !.docs = run[w].built]
  <2>1. NoFlush.refused = {}
    BY DEF NoFlush
  <2>2. [NoFlush EXCEPT !.pc = "failed"].refused = {}
    BY DEF NoFlush
  <2>3. [NoFlush EXCEPT !.pc = "send", !.docs = run[w].built].refused = {}
    BY DEF NoFlush
  <2> QED
    BY <1>2, <2>1, <2>2, <2>3
<1>3. CASE Send(w) \/ EngineTrouble(w)
  <2>1. flush'[w].refused = flush[w].refused
    BY <1>0, <1>3 DEF Send, EngineTrouble, Flushes
  <2> QED
    BY <1>0, <2>1
<1>4. CASE Isolate(w)
  <2> DEFINE first == FirstOf(1, flush[w].docs)
  <2>1. \/ flush'[w].refused = flush[w].refused
        \/ first \cap Refused # {} /\ flush'[w].refused = flush[w].refused \cup first
    BY <1>0, <1>4 DEF Isolate, Flushes
  <2>2. first \cap Refused # {} => first \subseteq Refused
    BY <1>0, FirstIsOne DEF Flushes
  <2> HIDE DEF first
  <2> QED
    BY <1>0, <2>1, <2>2
<1> QED
  BY <1>1, <1>2, <1>3, <1>4, FlushStep

\* The slots that have yet to count a message get fewer, but for the one that
\* could not read it.
LEMMA PendingStep ==
    ASSUME TypeOK, NamedInv, CountInv, [Next]_vars, NEW e \in Good \ deleted',
           NEW w \in Workers, ~ BuildChunk(w), e \in run'[w].unbuilt
    PROVE  e \in run[w].unbuilt /\ ~ Collect(w)
<1>0. run \in [Workers -> Runs] /\ run[w] \in Runs
  BY DEF TypeOK
<1>1. Free.unbuilt = {}
  BY DEF Free
<1>2. Take(w) => run'[w].unbuilt = {}
  BY <1>0, <1>1 DEF Take, Free
<1>3. Collect(w) => run'[w].unbuilt = {}
  BY <1>0 DEF Collect, Runs
<1> QED
  BY <1>1, <1>2, <1>3, RunStep, OtherStep

\* What a step does to the two counts of a message.
LEMMA CountsStep ==
    ASSUME TypeOK, CountInv, [Next]_vars, NEW e \in Good \ deleted'
    PROVE  /\ (\A w \in Workers : ~ BuildChunk(w)) => unread'[e] = unread[e]
           /\ \/ attempts'[e] \in { attempts[e], 0 }
              \/ \E w \in Workers : /\ Collect(w) /\ e \in run[w].unbuilt
                                    /\ attempts'[e] = attempts[e] + 1
<1>0. /\ e \in Good \ deleted /\ e \in Emails /\ attempts \in [Emails -> Nat]
  BY RowsStep DEF TypeOK, Good
<1>1. ASSUME NEW S, Count(S)
      PROVE  /\ e \notin S => attempts'[e] = attempts[e]
             /\ attempts'[e] \in { attempts[e], attempts[e] + 1 }
  BY <1>0, <1>1 DEF Count
<1>2. ASSUME NEW w \in Workers, WorkerNext(w) \/ EngineTrouble(w) \/ Stall(w)
      PROVE  /\ ~ BuildChunk(w) => UNCHANGED unread
             /\ \/ attempts'[e] \in { attempts[e], 0 }
                \/ Collect(w) /\ e \in run[w].unbuilt /\ attempts'[e] = attempts[e] + 1
  <2>1. CASE Collect(w)
    BY <1>1, <2>1 DEF Collect
  <2>2. CASE Record(w)
    BY <1>0, <1>1, <2>2 DEF Record, CountInv, Good
  <2>3. CASE Reset(w)
    BY <1>0, <2>3 DEF Reset
  <2>4. CASE \/ Take(w) \/ BuildChunk(w) \/ FinishBatch(w) \/ FailBatch(w) \/ Send(w)
             \/ MarkIndexed(w) \/ Isolate(w) \/ IdleWait(w) \/ Check(w) \/ Scan(w)
             \/ EngineTrouble(w) \/ Stall(w)
    <3>1. UNCHANGED attempts /\ (~ BuildChunk(w) => UNCHANGED unread)
      BY <2>4 DEF Take, BuildChunk, FinishBatch, FailBatch, Send, MarkIndexed, Isolate, IdleWait,
                  Check, Scan, EngineTrouble, Stall, rowVars
    <3> QED
      BY <3>1
  <2> QED
    BY <1>2, <2>1, <2>2, <2>3, <2>4 DEF WorkerNext
<1>3. CASE \/ Promote \/ Requeue \/ Tick \/ Crash
           \/ \E S \in Batches : Archive(S)
           \/ \E mode \in { "rebuild", "missing" }, scope \in Scopes : Request(mode, scope)
           \/ \E d \in Emails : DeleteDocument(d) \/ DeleteRow(d) \/ AbortDelete(d) \/ Wipe(d)
           \/ UNCHANGED vars
  <2>1. UNCHANGED << attempts, unread >>
    BY <1>3 DEF Promote, Requeue, Tick, Crash, Archive, Request, DeleteDocument, DeleteRow,
                AbortDelete, Wipe, vars, rowVars
  <2> QED
    BY <2>1
<1> QED
  BY <1>2, <1>3 DEF Next

LEMMA CountAttemptsStep ==
    ASSUME TypeOK, NamedInv, CountInv, [Next]_vars, NEW e \in Good \ deleted'
    PROVE  attempts'[e] + Cardinality(Pending(e)') <= unread'[e]
<1>0. /\ e \in Good \ deleted /\ e \in Emails
      /\ attempts \in [Emails -> Nat] /\ attempts[e] \in Nat
      /\ unread \in [Emails -> Nat] /\ unread[e] \in Nat
      /\ attempts[e] + Cardinality(Pending(e)) <= unread[e]
  BY RowsStep DEF CountInv, TypeOK, Good
<1>1. CASE \E w \in Workers : BuildChunk(w)
  <2> PICK w \in Workers : BuildChunk(w)
    BY <1>1
  <2>1. UNCHANGED << attempts, deleted >>
    BY DEF BuildChunk, rowVars
  <2>2. ASSUME NEW v \in Workers, v # w PROVE run'[v] = run[v]
    BY <2>2 DEF BuildChunk, TypeOK
  <2> DEFINE chunk == FirstOf(ChunkSize, run[w].rest)
  <2>3. PICK missed \in SUBSET chunk :
           /\ unread' = [d \in Emails |-> IF d \in missed THEN unread[d] + 1 ELSE unread[d]]
           /\ run'[w].unbuilt = chunk \ ((chunk \cap rows) \ (Unbuildable \cup missed))
    BY BuildStep
  <2>4. chunk \subseteq Archived
    BY FirstOfType DEF BuildChunk, CountInv, BatchPc
  <2> HIDE DEF chunk
  <2>5. CASE e \in missed
    <3>1. Pending(e)' \subseteq Pending(e) \cup {w}
      BY <2>2 DEF Pending
    <3>2. /\ IsFiniteSet(Pending(e) \cup {w})
          /\ Cardinality(Pending(e) \cup {w}) \in { Cardinality(Pending(e)), Cardinality(Pending(e)) + 1 }
      BY PendingType, FS_AddElement
    <3>3. Cardinality(Pending(e)') <= Cardinality(Pending(e)) + 1
      BY <3>1, <3>2, PendingType, FS_Subset
    <3>4. unread'[e] = unread[e] + 1
      BY <1>0, <2>3, <2>5
    <3> QED
      BY <1>0, <2>1, <3>3, <3>4, PendingType
  <2>6. CASE e \notin missed
    <3>1. e \notin run'[w].unbuilt
      BY <1>0, <2>3, <2>4, <2>6 DEF Good, Archived
    <3>2. Pending(e)' \subseteq Pending(e)
      BY <2>2, <3>1 DEF Pending
    <3>3. Cardinality(Pending(e)') <= Cardinality(Pending(e))
      BY <3>2, PendingType, FS_Subset
    <3>4. unread'[e] = unread[e]
      BY <1>0, <2>3, <2>6
    <3> QED
      BY <1>0, <2>1, <3>3, <3>4, PendingType
  <2> QED
    BY <2>5, <2>6
<1>2. CASE ~ \E w \in Workers : BuildChunk(w)
  <2>1. unread'[e] = unread[e]
    BY <1>2, CountsStep
  <2>2. Pending(e)' \subseteq Pending(e)
    BY <1>2, PendingStep DEF Pending
  <2>3. Cardinality(Pending(e)') <= Cardinality(Pending(e))
    BY <2>2, PendingType, FS_Subset
  <2>4. CASE attempts'[e] \in { attempts[e], 0 }
    BY <1>0, <2>1, <2>3, <2>4, PendingType
  <2>5. CASE \E w \in Workers : Collect(w) /\ e \in run[w].unbuilt /\ attempts'[e] = attempts[e] + 1
    <3> PICK w \in Workers : Collect(w) /\ e \in run[w].unbuilt /\ attempts'[e] = attempts[e] + 1
      BY <2>5
    <3>1. w \in Pending(e) /\ w \notin Pending(e)'
      BY <1>2, PendingStep DEF Pending
    <3>2. /\ Cardinality(Pending(e) \ {w}) = Cardinality(Pending(e)) - 1
          /\ IsFiniteSet(Pending(e) \ {w})
      BY <3>1, PendingType, FS_RemoveElement
    <3>3. Cardinality(Pending(e)') <= Cardinality(Pending(e) \ {w})
      BY <2>2, <3>1, <3>2, FS_Subset
    <3> QED
      BY <1>0, <2>1, <3>2, <3>3, PendingType
  <2> QED
    BY <2>4, <2>5, CountsStep
<1> QED
  BY <1>1, <1>2

LEMMA NextCountInv == TypeOK /\ NamedInv /\ CountInv /\ [Next]_vars => CountInv'
  BY CountRunStep, CountFlushStep, CountAttemptsStep DEF CountInv

\* Trouble of the engine never counts against a message that can be built and
\* is not refused, whatever chunk it travels in and however often its job fails:
\* its index_attempts are at most the times it could not be read itself.
THEOREM OutageNeverCounted == Spec => []OutageNotCounted
<1>1. TypeOK /\ CountInv => OutageNotCounted
  <2> SUFFICES ASSUME TypeOK, CountInv, NEW e \in Good \cap rows PROVE attempts[e] <= unread[e]
    BY DEF OutageNotCounted
  <2>1. /\ attempts[e] \in Nat /\ unread[e] \in Nat
        /\ attempts[e] + Cardinality(Pending(e)) <= unread[e]
    BY DEF TypeOK, CountInv
  <2> QED
    BY <2>1, PendingType
<1>2. Spec => []NamedInv
  BY InitNamedInv, NextNamedInv, TypeCorrect, PTL DEF Spec
<1> QED
  BY <1>1, <1>2, InitCountInv, NextCountInv, TypeCorrect, PTL DEF Spec

-----------------------------------------------------------------------------
(* A rebuild reaches every row. *)

SlotInv ==
    \A w \in Workers :
        /\ run[w].pc \notin BatchPc => flush[w] = NoFlush
        /\ run[w].pc = "idleWait" => run[w].job.name = "rebuild"
        /\ run[w].pc = "reset" /\ run[w].job.name # "rebuild" => asked[w] = {}

\* Neither a row whose flag was reset nor one whose flag is about to be has an
\* older document in flight that has yet to mark it.
RebuildInv ==
    hurried \/
    /\ owed \cap isIndexed = {}
    /\ \A w \in Workers :
           /\ ~ run[w].ghost
           /\ owed \cap Settled(w) = {}
           /\ run[w].pc = "reset" => \A u \in Workers : asked[w] \cap Settled(u) = {}

LEMMA InitRebuildInv == Init => SlotInv /\ RebuildInv
  BY DEF Init, SlotInv, RebuildInv, Free, Settled, NoFlush

\* What a step does to the documents a rebuild has yet to reach.
LEMMA AskedStep ==
    ASSUME TypeOK, SlotInv, [Next]_vars, NEW w \in Workers
    PROVE  \/ asked'[w] \subseteq asked[w]
           \/ Take(w) /\ (Head(waiting).name # "rebuild" => asked'[w] = {})
<1>0. asked \in [Workers -> SUBSET Emails]
  BY DEF TypeOK
<1>1. CASE \E S : Write(S)
  BY <1>0, <1>1 DEF Write
<1>2. CASE UNCHANGED asked
  BY <1>2
<1>3. ASSUME NEW v \in Workers, WorkerNext(v) \/ EngineTrouble(v) \/ Stall(v)
      PROVE  \/ asked'[w] \subseteq asked[w]
             \/ Take(w) /\ (Head(waiting).name # "rebuild" => asked'[w] = {})
  <2>1. CASE Take(v) \/ Reset(v)
    BY <1>0, <2>1 DEF Take, Reset
  <2>2. CASE Send(v) \/ Isolate(v) \/ EngineTrouble(v)
    <3>1. (\E S : Write(S)) \/ UNCHANGED asked
      BY <2>2 DEF Send, Isolate, EngineTrouble, docVars
    <3> QED
      BY <1>1, <1>2, <3>1
  <2>3. CASE \/ BuildChunk(v) \/ Collect(v) \/ FinishBatch(v) \/ FailBatch(v) \/ MarkIndexed(v)
             \/ Record(v) \/ IdleWait(v) \/ Check(v) \/ Scan(v) \/ Stall(v)
    <3>1. UNCHANGED asked
      BY <2>3 DEF BuildChunk, Collect, FinishBatch, FailBatch, MarkIndexed, Record, IdleWait, Check,
                  Scan, Stall, docVars
    <3> QED
      BY <1>2, <3>1
  <2> QED
    BY <1>3, <2>1, <2>2, <2>3 DEF WorkerNext
<1>4. CASE Crash
  BY <1>0, <1>4 DEF Crash
<1>5. CASE \/ Promote \/ Requeue \/ Tick
           \/ \E S \in Batches : Archive(S)
           \/ \E mode \in { "rebuild", "missing" }, scope \in Scopes : Request(mode, scope)
           \/ \E e \in Emails : DeleteDocument(e) \/ DeleteRow(e) \/ AbortDelete(e) \/ Wipe(e)
           \/ UNCHANGED vars
  <2>1. UNCHANGED asked
    BY <1>5 DEF Promote, Requeue, Tick, Archive, Request, DeleteDocument, DeleteRow, AbortDelete,
                Wipe, vars, docVars
  <2> QED
    BY <1>2, <2>1
<1> QED
  BY <1>3, <1>4, <1>5 DEF Next

LEMMA OwedStep ==
    ASSUME TypeOK, [Next]_vars
    PROVE  \/ owed' \subseteq owed
           \/ \E w \in Workers : Reset(w)
<1>1. ASSUME NEW v \in Workers, WorkerNext(v) \/ EngineTrouble(v) \/ Stall(v), ~ Reset(v)
      PROVE  owed' \subseteq owed
  <2>1. CASE Send(v) \/ Isolate(v) \/ EngineTrouble(v)
    BY <2>1 DEF Send, Isolate, EngineTrouble, docVars, Write
  <2>2. CASE \/ Take(v) \/ BuildChunk(v) \/ Collect(v) \/ FinishBatch(v) \/ FailBatch(v)
             \/ MarkIndexed(v) \/ Record(v) \/ IdleWait(v) \/ Check(v) \/ Scan(v) \/ Stall(v)
    BY <2>2 DEF Take, BuildChunk, Collect, FinishBatch, FailBatch, MarkIndexed, Record, IdleWait,
                Check, Scan, Stall, docVars
  <2> QED
    BY <1>1, <2>1, <2>2 DEF WorkerNext
<1>2. CASE \/ Promote \/ Requeue \/ Tick \/ Crash
           \/ \E S \in Batches : Archive(S)
           \/ \E mode \in { "rebuild", "missing" }, scope \in Scopes : Request(mode, scope)
           \/ \E e \in Emails : DeleteDocument(e) \/ DeleteRow(e) \/ AbortDelete(e) \/ Wipe(e)
           \/ UNCHANGED vars
  BY <1>2 DEF Promote, Requeue, Tick, Crash, Archive, Request, DeleteDocument, DeleteRow,
              AbortDelete, Wipe, vars, docVars
<1> QED
  BY <1>1, <1>2 DEF Next

\* A rebuild that waits for the others to be idle finds no chunk in flight.
LEMMA IdleMeansSettled ==
    ASSUME TypeOK, NEW w \in Workers, IdleWait(w), ~ hurried', NEW u \in Workers, ~ run[u].ghost,
           ~ run[w].ghost
    PROVE  run[u].pc \notin BatchPc
<1> SUFFICES ASSUME run[u].pc \in BatchPc PROVE FALSE
  OBVIOUS
<1>0. u # w /\ u \in Active /\ w \in Active /\ run[u].pc # "idleWait"
  BY DEF IdleWait, BatchPc, Active
<1>1. ~ OnlyWaits
  BY <1>0 DEF OnlyWaits
<1>2. ActiveCount <= 1
  BY <1>1 DEF IdleWait
<1>3. IsFiniteSet(Active) /\ Len(stalled) \in Nat
  BY ConstantsAssumption, FS_Subset, QueueType DEF Active
<1>4. IsFiniteSet({ u }) /\ Cardinality({ u }) = 1
  BY FS_Singleton
<1>5. Cardinality({ u } \cup { w }) = 2
  BY <1>0, <1>4, FS_AddElement, SMTT(30)
<1>6. Cardinality({ u } \cup { w }) <= Cardinality(Active)
  BY <1>0, <1>3, FS_Subset
<1>7. Cardinality(Active) \in Nat
  BY <1>3, FS_CardinalityType
<1>8. Cardinality(Active) >= 2
  BY <1>5, <1>6, <1>7
<1>9. Cardinality(Active) + Len(stalled) <= 1
  BY <1>2 DEF ActiveCount
<1> QED
  BY <1>3, <1>7, <1>8, <1>9

\* A slot that does not index a batch has no chunk in flight.
LEMMA SlotFlushStep ==
    ASSUME TypeOK, SlotInv, [Next]_vars, NEW w \in Workers, run'[w].pc \notin BatchPc
    PROVE  flush'[w] = NoFlush
<1>0. /\ run \in [Workers -> Runs] /\ flush \in [Workers -> Flushes] /\ run[w] \in Runs
      /\ run[w].pc \notin BatchPc => flush[w] = NoFlush
  BY DEF TypeOK, SlotInv
<1>1. CASE run'[w] = run[w] /\ flush'[w] = flush[w]
  BY <1>0, <1>1
<1>2. CASE flush'[w] = NoFlush
  BY <1>2
<1>3. ASSUME Release(w)
      PROVE  flush'[w] = NoFlush
  BY <1>0, <1>3 DEF Release
<1>4. CASE Take(w) \/ IdleWait(w) \/ Reset(w)
  BY <1>0, <1>4 DEF Take, IdleWait, Reset, BatchPc
<1>5. CASE BuildChunk(w) \/ Collect(w)
  <2>1. run'[w].pc \in BatchPc
    BY <1>0, <1>5, BuildKeeps DEF Collect, Runs, BatchPc
  <2> QED
    BY <2>1
<1>6. CASE FinishBatch(w) \/ FailBatch(w)
  BY <1>3, <1>6 DEF FinishBatch, FailBatch, Complete, Throw
<1>7. CASE Send(w) \/ MarkIndexed(w) \/ Isolate(w) \/ Record(w) \/ EngineTrouble(w)
  <2>1. flush[w].pc # "none" /\ run'[w] = run[w]
    BY <1>7 DEF Send, MarkIndexed, Isolate, Record, EngineTrouble
  <2> QED
    BY <1>0, <2>1 DEF NoFlush
<1>8. CASE Check(w) \/ Scan(w)
  BY <1>0, <1>3, <1>8 DEF Check, Scan, Complete, BatchPc
<1>9. CASE Stall(w)
  BY <1>0, <1>9 DEF Stall, Runs
<1>10. ASSUME NEW v \in Workers, WorkerNext(v) \/ EngineTrouble(v) \/ Stall(v), v # w
       PROVE  run'[w] = run[w] /\ flush'[w] = flush[w]
  <2>1. CASE \/ Take(v) \/ BuildChunk(v) \/ Collect(v) \/ IdleWait(v) \/ Reset(v) \/ Stall(v)
             \/ Send(v) \/ MarkIndexed(v) \/ Isolate(v) \/ Record(v) \/ EngineTrouble(v)
    BY <1>0, <1>10, <2>1 DEF Take, BuildChunk, Collect, IdleWait, Reset, Stall, Goto, Send,
                             MarkIndexed, Isolate, Record, EngineTrouble
  <2>2. CASE FinishBatch(v) \/ FailBatch(v)
    <3>1. Release(v)
      BY <2>2 DEF FinishBatch, FailBatch, Complete, Throw
    <3> QED
      BY <1>0, <1>10, <3>1 DEF Release
  <2>3. CASE Check(v) \/ Scan(v)
    BY <1>0, <1>10, <2>3 DEF Check, Scan, Complete, Release, Goto
  <2> QED
    BY <1>10, <2>1, <2>2, <2>3 DEF WorkerNext
<1>11. CASE Crash
  BY <1>11 DEF Crash
<1>12. CASE \/ Promote \/ Requeue \/ Tick
            \/ \E S \in Batches : Archive(S)
            \/ \E mode \in { "rebuild", "missing" }, scope \in Scopes : Request(mode, scope)
            \/ \E e \in Emails : DeleteDocument(e) \/ DeleteRow(e) \/ AbortDelete(e) \/ Wipe(e)
            \/ UNCHANGED vars
  <2>1. run' = run /\ flush' = flush
    BY <1>12 DEF Promote, Requeue, Tick, Archive, Request, DeleteDocument, DeleteRow, AbortDelete,
                 Wipe, vars
  <2> QED
    BY <1>1, <2>1
<1> QED
  BY <1>1, <1>2, <1>4, <1>5, <1>6, <1>7, <1>8, <1>9, <1>10, <1>11, <1>12 DEF Next, WorkerNext

\* Where a slot that is about to wait, or to reset, comes from.
LEMMA ResetStep ==
    ASSUME TypeOK, SlotInv, [Next]_vars, NEW w \in Workers
    PROVE  /\ run'[w].pc = "idleWait" => run'[w].job.name = "rebuild"
           /\ run'[w].pc = "reset" =>
                  \/ /\ run[w].pc = "reset" /\ run'[w].job = run[w].job
                     /\ asked'[w] \subseteq asked[w]
                  \/ IdleWait(w) /\ run'[w].job.name = "rebuild"
                  \/ asked'[w] = {}
<1>0. /\ run \in [Workers -> Runs] /\ run[w] \in Runs
      /\ run[w].pc = "idleWait" => run[w].job.name = "rebuild"
  BY DEF TypeOK, SlotInv
<1>1. CASE Take(w)
  <2> DEFINE job == Head(waiting)
  <2>1. job.name \in JobNames
    <3>1. job \in Jobs
      BY <1>1, QueueType, QueueSteps DEF Take
    <3> HIDE DEF job
    <3> QED
      BY <3>1 DEF Jobs
  <2>2. run'[w].pc = FirstPc(job) /\ run'[w].job = job
    BY <1>0, <1>1 DEF Take, Free
  <2>3. job.name # "rebuild" => asked'[w] = {}
    BY <1>1 DEF Take, TypeOK
  <2> HIDE DEF job
  <2> QED
    BY <2>1, <2>2, <2>3 DEF FirstPc, JobNames
<1>2. CASE ~ Take(w)
  <2>0. asked'[w] \subseteq asked[w]
    BY <1>2, AskedStep
  <2>1. CASE run'[w] = run[w]
    BY <1>0, <2>0, <2>1
  <2>2. CASE run'[w] = Free
    BY <2>2 DEF Free
  <2>3. CASE BuildChunk(w) \/ Collect(w)
    <3>1. run'[w].pc \in BatchPc
      BY <1>0, <2>3, BuildKeeps DEF Collect, Runs, BatchPc
    <3> QED
      BY <3>1 DEF BatchPc
  <2>4. CASE IdleWait(w) \/ Reset(w) \/ Check(w) \/ Scan(w) \/ Stall(w)
    <3>1. IdleWait(w) => run[w].pc = "idleWait"
      BY DEF IdleWait
    <3>2. \/ run'[w] = Free
          \/ /\ run'[w].job = run[w].job
             /\ \/ run'[w].pc = run[w].pc
                \/ IdleWait(w) /\ run'[w].pc = "reset"
                \/ run'[w].pc = "scan"
      BY <2>4, OtherStep
    <3> QED
      BY <1>0, <2>0, <2>2, <3>1, <3>2
  <2> QED
    BY <1>2, <2>1, <2>2, <2>3, <2>4, RunStep
<1> QED
  BY <1>1, <1>2

LEMMA NextSlotInv == TypeOK /\ SlotInv /\ [Next]_vars => SlotInv'
<1> SUFFICES ASSUME TypeOK, SlotInv, [Next]_vars, NEW w \in Workers
             PROVE  /\ run'[w].pc \notin BatchPc => flush'[w] = NoFlush
                    /\ run'[w].pc = "idleWait" => run'[w].job.name = "rebuild"
                    /\ run'[w].pc = "reset" /\ run'[w].job.name # "rebuild" => asked'[w] = {}
  BY DEF SlotInv
<1>1. run[w].pc = "reset" /\ run[w].job.name # "rebuild" => asked[w] = {}
  BY DEF SlotInv
<1> QED
  BY <1>1, SlotFlushStep, ResetStep

\* A rebuild that went ahead, or a job that lost its lock, is remembered.
LEMMA HurriedStep ==
    ASSUME TypeOK, [Next]_vars, ~ hurried'
    PROVE  /\ ~ hurried
           /\ \A w \in Workers : ~ run[w].ghost => ~ run'[w].ghost
<1>0. run \in [Workers -> Runs] /\ Free.ghost = FALSE
  BY DEF TypeOK, Free
<1>1. ASSUME NEW w \in Workers, ~ run[w].ghost, ~ Stall(w)
      PROVE  ~ run'[w].ghost
  <2>0. run[w] \in Runs
    BY <1>0
  <2>1. CASE run'[w] = run[w] \/ run'[w] = Free
    BY <1>0, <1>1, <2>1
  <2>2. CASE Take(w)
    BY <1>0, <2>2 DEF Take, Free
  <2>3. CASE BuildChunk(w) \/ Collect(w)
    BY <1>0, <1>1, <2>0, <2>3, BuildKeeps DEF Collect, Runs
  <2>4. ASSUME NEW pc, Goto(w, pc) PROVE ~ run'[w].ghost
    BY <1>0, <1>1, <2>0, <2>4 DEF Goto, Runs
  <2>5. CASE Release(w)
    BY <1>0, <2>5 DEF Release
  <2>6. CASE IdleWait(w) \/ Reset(w) \/ Check(w)
    BY <2>4, <2>5, <2>6 DEF IdleWait, Reset, Check, Complete
  <2>7. CASE run' = [run EXCEPT ![w].past = UpTo(FirstOf(BatchSize, Backlog(w))),
                                ![w].pages = IF run[w].job.name = "reconcile-index"
                                             THEN @ + 1 ELSE @]
    BY <1>0, <1>1, <2>0, <2>7 DEF Runs
  <2>8. CASE Scan(w)
    BY <2>5, <2>7, <2>8 DEF Scan, Complete
  <2> QED
    BY <1>1, <2>1, <2>2, <2>3, <2>6, <2>8, RunStep
<1>2. ASSUME NEW v \in Workers, WorkerNext(v) \/ EngineTrouble(v) \/ Stall(v)
      PROVE  ~ hurried
  <2>1. ~ Stall(v)
    BY DEF Stall
  <2>2. CASE IdleWait(v)
    BY <2>2 DEF IdleWait
  <2>3. CASE \/ Take(v) \/ BuildChunk(v) \/ Collect(v) \/ FinishBatch(v) \/ FailBatch(v) \/ Send(v)
             \/ MarkIndexed(v) \/ Isolate(v) \/ Record(v) \/ Reset(v) \/ Check(v) \/ Scan(v)
             \/ EngineTrouble(v)
    BY <2>3 DEF Take, BuildChunk, Collect, FinishBatch, FailBatch, Send, MarkIndexed, Isolate,
                Record, Reset, Check, Scan, EngineTrouble
  <2> QED
    BY <1>2, <2>1, <2>2, <2>3 DEF WorkerNext
<1>3. ~ hurried
  <2>1. CASE Promote \/ Requeue \/ Tick
    <3>1. UNCHANGED hurried
      BY <2>1, Zenon DEF Promote, Requeue, Tick
    <3> QED
      BY <3>1
  <2>2. CASE Crash
    <3>1. UNCHANGED hurried
      BY <2>2, Zenon DEF Crash
    <3> QED
      BY <3>1
  <2>3. CASE \/ \E S \in Batches : Archive(S)
             \/ \E mode \in { "rebuild", "missing" }, scope \in Scopes : Request(mode, scope)
             \/ \E e \in Emails : DeleteDocument(e) \/ DeleteRow(e) \/ AbortDelete(e) \/ Wipe(e)
    BY <2>3 DEF Archive, Request, DeleteDocument, DeleteRow, AbortDelete, Wipe
  <2>4. CASE UNCHANGED vars
    BY <2>4 DEF vars
  <2> QED
    BY <1>2, <2>1, <2>2, <2>3, <2>4 DEF Next
<1>4. \A w \in Workers : ~ Stall(w)
  BY DEF Stall
<1> QED
  BY <1>1, <1>3, <1>4

LEMMA NextRebuildInv == TypeOK /\ SlotInv /\ RebuildInv /\ [Next]_vars => RebuildInv'
<1> SUFFICES ASSUME TypeOK, SlotInv, RebuildInv, [Next]_vars, ~ hurried'
             PROVE  /\ owed' \cap isIndexed' = {}
                    /\ \A w \in Workers :
                           /\ ~ run'[w].ghost
                           /\ owed' \cap Settled(w)' = {}
                           /\ run'[w].pc = "reset" =>
                                  \A u \in Workers : asked'[w] \cap Settled(u)' = {}
  BY DEF RebuildInv
<1>1. /\ owed \cap isIndexed = {}
      /\ \A w \in Workers :
             /\ ~ run[w].ghost
             /\ owed \cap Settled(w) = {}
             /\ run[w].pc = "reset" => \A u \in Workers : asked[w] \cap Settled(u) = {}
  BY HurriedStep DEF RebuildInv
<1>2. \A w \in Workers : ~ run'[w].ghost
  BY <1>1, HurriedStep
<1>3. owed' \cap isIndexed' = {}
  <2>1. CASE owed' \subseteq owed
    BY <1>1, <2>1, IndexedStep
  <2>2. ASSUME NEW w \in Workers, Reset(w)
        PROVE  owed' \cap isIndexed' = {}
    <3>1. run[w].job.name # "rebuild" => asked[w] = {}
      BY <2>2 DEF Reset, SlotInv
    <3>2. CASE run[w].job.name = "rebuild"
      BY <1>1, <2>2, <3>2 DEF Reset
    <3>3. CASE run[w].job.name # "rebuild"
      BY <1>1, <2>2, <3>1, <3>3 DEF Reset
    <3> QED
      BY <3>2, <3>3
  <2> QED
    BY <2>1, <2>2, OwedStep
<1>4. ASSUME NEW u \in Workers
      PROVE  owed' \cap Settled(u)' = {}
  <2>1. CASE owed' \subseteq owed
    <3>1. CASE Settled(u)' \subseteq Settled(u)
      BY <1>1, <2>1, <3>1
    <3>2. ASSUME NEW S, Write(S), Settled(u)' \subseteq Settled(u) \cup S
          PROVE  owed' \cap Settled(u)' = {}
      BY <1>1, <3>2 DEF Write
    <3> QED
      BY <3>1, <3>2, SettledStep
  <2>2. ASSUME NEW w \in Workers, Reset(w)
        PROVE  owed' \cap Settled(u)' = {}
    <3>1. Settled(u)' = Settled(u)
      BY <2>2 DEF Reset, Settled
    <3>2. asked[w] \cap Settled(u) = {} /\ owed' \subseteq owed \cup asked[w]
      BY <1>1, <2>2 DEF Reset
    <3> QED
      BY <1>1, <3>1, <3>2
  <2> QED
    BY <2>1, <2>2, OwedStep
<1>5. ASSUME NEW w \in Workers, NEW u \in Workers, run'[w].pc = "reset"
      PROVE  asked'[w] \cap Settled(u)' = {}
  <2>1. CASE run[w].pc = "reset" /\ asked'[w] \subseteq asked[w]
    <3>1. CASE Settled(u)' \subseteq Settled(u)
      BY <1>1, <2>1, <3>1
    <3>2. ASSUME NEW S, Write(S), Settled(u)' \subseteq Settled(u) \cup S
          PROVE  asked'[w] \cap Settled(u)' = {}
      <4>1. asked'[w] = asked[w] \ S
        BY <3>2 DEF Write
      <4> QED
        BY <1>1, <2>1, <3>2, <4>1
    <3> QED
      BY <3>1, <3>2, SettledStep
  <2>2. CASE IdleWait(w)
    <3>1. flush[u] = NoFlush
      BY <1>1, <2>2, IdleMeansSettled DEF SlotInv
    <3>2. flush' = flush
      BY <2>2 DEF IdleWait
    <3>3. Settled(u)' = {}
      BY <3>1, <3>2 DEF Settled, NoFlush
    <3> QED
      BY <3>3
  <2> QED
    BY <1>5, <2>1, <2>2, ResetStep
<1> QED
  BY <1>2, <1>3, <1>4, <1>5

\* A rebuild that waited for the jobs in flight leaves no row that reads as
\* indexed on the strength of an older document.
THEOREM RebuildSound == Spec => []RebuildReachesAll
<1>1. RebuildInv => RebuildReachesAll
  BY DEF RebuildInv, RebuildReachesAll
<1>2. Spec => []SlotInv
  BY InitRebuildInv, NextSlotInv, TypeCorrect, PTL DEF Spec
<1> QED
  BY <1>1, <1>2, InitRebuildInv, NextRebuildInv, TypeCorrect, PTL DEF Spec
=============================================================================
