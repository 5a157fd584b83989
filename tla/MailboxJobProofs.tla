------------------------- MODULE MailboxJobProofs -------------------------
(***************************************************************************)
(* What a mailbox's job guarantees, for any number of messages, copies and *)
(* runs, any concurrency and any batch size.  The invariants are proved one *)
(* after the other, each from the ones before it.                           *)
(***************************************************************************)
EXTENDS MailboxJob, FiniteSetTheorems, TLAPS

-----------------------------------------------------------------------------
(* Types                                                                    *)

LEMMA InitTypeOK == Init => TypeOK
<1> SUFFICES ASSUME Init PROVE TypeOK
  OBVIOUS
<1>1. task \in [Emails -> TaskPc] /\ prior \in [Emails -> Emails \cup {NoEmail}]
  BY DEF Init, TaskPc
<1>2. keyed \in [Keys -> Emails \cup {NoEmail}] /\ ahead \in [Emails -> SUBSET Emails]
  BY DEF Init
<1>3. run \in 1 .. MaxRuns
  BY ConstantsAssumption DEF Init
<1> QED
  BY <1>1, <1>2, <1>3 DEF Init, TypeOK, LoopPc

LEMMA NextTypeOK == TypeOK /\ [Next]_vars => TypeOK'
<1> SUFFICES ASSUME TypeOK, [Next]_vars PROVE TypeOK'
  OBVIOUS
<1> USE DEF TypeOK, LoopPc, TaskPc, Outcomes, loopVars, taskVars
<1>0. \A e \in Emails : KeyOf[e] \in Keys
  BY ConstantsAssumption
<1>1. ASSUME NEW e \in Emails, SkipKnown(e) \/ DropDraft(e) \/ GiveUp(e) PROVE TypeOK'
  BY <1>1, ConstantsAssumption DEF SkipKnown, DropDraft, GiveUp
<1>2. ASSUME NEW e \in Emails, Yield(e) PROVE TypeOK'
  <2>1. ahead' \in [Emails -> SUBSET Emails]
    BY <1>2 DEF Yield
  <2>3. /\ prior' \in [Emails -> Emails \cup {NoEmail}]
        /\ keyed' \in [Keys -> Emails \cup {NoEmail}]
    BY <1>2, <1>0 DEF Yield
  <2>4. task' \in [Emails -> TaskPc]
    BY <1>2 DEF Yield
  <2>5. /\ pc' \in LoopPc /\ flushing' \subseteq Emails /\ batch' \subseteq Emails
        /\ slotWaiter' \in BOOLEAN
    BY <1>2 DEF Yield, CheckBatch
  <2> QED
    BY <1>2, <2>1, <2>3, <2>4, <2>5 DEF Yield
<1>3. CASE \/ ListingEnds \/ RecordFail \/ Record \/ Report
           \/ \E what \in { "error", "unavailable" } : ConnectorThrows(what)
  BY <1>3 DEF ListingEnds, RecordFail, Record, Report, ConnectorThrows
<1>4. CASE SlotResume \/ Drain
  BY <1>4 DEF SlotResume, CheckBatch, Drain
<1>5. CASE FlushOk \/ FlushFail
  BY <1>5 DEF FlushOk, FlushFail
<1>6. ASSUME NEW e \in Emails, TaskNext(e) PROVE TypeOK'
  <2>1. CASE TaskSettles(e)
    <3>1. ahead' \in [Emails -> SUBSET Emails]
      BY <2>1 DEF TaskSettles
    <3>2. keyed' \in [Keys -> Emails \cup {NoEmail}] /\ task' \in [Emails -> TaskPc]
      BY <2>1, <1>0 DEF TaskSettles
    <3> QED
      BY <2>1, <3>1, <3>2 DEF TaskSettles
  <2>2. CASE ~ TaskSettles(e)
    BY <1>6, <2>2 DEF TaskNext, TaskStart, TaskGate, TaskInsert, TaskArchived, TaskFails
  <2> QED
    BY <2>1, <2>2
<1>7. CASE Crash
  <2>1. /\ task' \in [Emails -> TaskPc] /\ prior' \in [Emails -> Emails \cup {NoEmail}]
        /\ keyed' \in [Keys -> Emails \cup {NoEmail}] /\ ahead' \in [Emails -> SUBSET Emails]
    BY <1>7 DEF Crash
  <2> QED
    BY <1>7, <2>1 DEF Crash
<1>8. CASE NextRun
  <2>1. task' \in [Emails -> TaskPc] /\ prior' \in [Emails -> Emails \cup {NoEmail}]
    BY <1>8 DEF NextRun
  <2>2. run' \in 1 .. MaxRuns
    BY <1>8, ConstantsAssumption DEF NextRun
  <2> QED
    BY <1>8, <2>1, <2>2 DEF NextRun
<1>9. CASE UNCHANGED vars
  BY <1>9 DEF vars
<1> QED
  BY <1>1, <1>2, <1>3, <1>4, <1>5, <1>6, <1>7, <1>8, <1>9 DEF Next, LoopNext

\* Every variable keeps its type: process-mailbox's Map, Set and arrays hold the
\* mailbox's messages only.
THEOREM TypeCorrect == Spec => []TypeOK
<1>1. Init => TypeOK
  BY InitTypeOK
<1>2. TypeOK /\ [Next]_vars => TypeOK'
  BY NextTypeOK
<1> QED
  BY <1>1, <1>2, PTL DEF Spec

-----------------------------------------------------------------------------
(* The loop and the tasks it tracks                                         *)

\* inFlight holds exactly the tasks that have not settled, all of them for
\* messages the connector has yielded; while the loop goes on pulling, at least
\* one slot is free; once the tasks were awaited, none is in flight.
LoopInv ==
    /\ inFlight = { e \in Emails : task[e] \notin { "none", "settled" } }
    /\ \A e \in Emails : task[e] # "none" => e \in offered \ Drafts
    /\ outcome = "none" <=> pc # "done"
    /\ pc \in { "record", "finalFlush", "lastFlush", "report", "done" } => inFlight = {}
    /\ Cardinality(inFlight) <= Concurrency
    /\ pc \in { "pull", "flush" } \/ (pc = "slot" /\ ~ slotWaiter)
          => Cardinality(inFlight) < Concurrency
    /\ slotWaiter => pc = "slot"

\* What adding and removing a task does to the number in flight.
LEMMA InFlightCount ==
    ASSUME TypeOK
    PROVE  /\ IsFiniteSet(inFlight) /\ Cardinality(inFlight) \in Nat
           /\ \A e \in Emails \ inFlight :
                 Cardinality(inFlight \cup {e}) = Cardinality(inFlight) + 1
           /\ \A e \in inFlight : Cardinality(inFlight \ {e}) = Cardinality(inFlight) - 1
<1>1. IsFiniteSet(inFlight)
  BY FS_Subset, ConstantsAssumption DEF TypeOK
<1> QED
  BY <1>1, FS_CardinalityType, FS_AddElement, FS_RemoveElement

LEMMA InitLoop == Init => LoopInv
<1> SUFFICES ASSUME Init PROVE LoopInv
  OBVIOUS
<1>1. inFlight = {} /\ Cardinality(inFlight) = 0
  BY FS_EmptySet DEF Init
<1>2. inFlight = { e \in Emails : task[e] \notin { "none", "settled" } }
  BY <1>1 DEF Init
<1> QED
  BY <1>1, <1>2, ConstantsAssumption DEF Init, LoopInv

LEMMA NextLoop == TypeOK /\ LoopInv /\ [Next]_vars => LoopInv'
<1> SUFFICES ASSUME TypeOK, LoopInv, [Next]_vars PROVE LoopInv'
  OBVIOUS
<1> USE DEF LoopInv, loopVars, taskVars
<1>0. Concurrency \in Nat \ {0}
  BY ConstantsAssumption
<1>1. ASSUME NEW e \in Emails, SkipKnown(e) \/ DropDraft(e) \/ GiveUp(e) PROVE LoopInv'
  BY <1>1 DEF SkipKnown, DropDraft, GiveUp
<1>2. ASSUME NEW e \in Emails, Yield(e) PROVE LoopInv'
  <2>1. /\ e \notin inFlight /\ inFlight' = inFlight \cup {e} /\ pc = "pull"
        /\ Cardinality(inFlight') = Cardinality(inFlight) + 1
    BY <1>2, InFlightCount DEF Yield
  <2>2. inFlight' = { d \in Emails : task'[d] \notin { "none", "settled" } }
    BY <1>2, <2>1 DEF Yield, TypeOK
  <2>3. \A d \in Emails : task'[d] # "none" => d \in offered' \ Drafts
    BY <1>2 DEF Yield, TypeOK
  <2>4. Cardinality(inFlight) \in Nat /\ Cardinality(inFlight) < Concurrency
    BY <2>1, InFlightCount
  <2>5. CASE Cardinality(inFlight') >= Concurrency
    BY <1>0, <1>2, <2>1, <2>2, <2>3, <2>4, <2>5 DEF Yield
  <2>6. CASE ~ (Cardinality(inFlight') >= Concurrency)
    <3>1. pc' \in { "pull", "flush" } /\ slotWaiter' = slotWaiter /\ outcome' = outcome
      BY <1>2, <2>6 DEF Yield, CheckBatch
    <3> QED
      BY <1>0, <2>1, <2>2, <2>3, <2>4, <2>6, <3>1
  <2> QED
    BY <2>5, <2>6
<1>3. CASE \/ ListingEnds \/ RecordFail \/ Record \/ Report
           \/ \E what \in { "error", "unavailable" } : ConnectorThrows(what)
  BY <1>3 DEF ListingEnds, RecordFail, Record, Report, ConnectorThrows
<1>4. CASE SlotResume \/ Drain
  BY <1>4 DEF SlotResume, CheckBatch, Drain
<1>5. CASE FlushOk \/ FlushFail
  BY <1>5 DEF FlushOk, FlushFail
<1>6. ASSUME NEW e \in Emails, TaskNext(e) PROVE LoopInv'
  <2>1. CASE TaskSettles(e)
    <3>1. /\ e \in inFlight /\ inFlight' = inFlight \ {e} /\ ~ slotWaiter'
          /\ Cardinality(inFlight') = Cardinality(inFlight) - 1
      BY <2>1, InFlightCount DEF TaskSettles
    <3>2. inFlight' = { d \in Emails : task'[d] \notin { "none", "settled" } }
      BY <2>1, <3>1 DEF TaskSettles, TypeOK
    <3>3. \A d \in Emails : task'[d] # "none" => d \in offered' \ Drafts
      BY <2>1 DEF TaskSettles, TypeOK
    <3>4. Cardinality(inFlight) \in Nat
      BY InFlightCount
    <3> QED
      BY <1>0, <2>1, <3>1, <3>2, <3>3, <3>4 DEF TaskSettles
  <2>2. CASE ~ TaskSettles(e)
    <3>1. PICK v \in TaskPc \ { "none", "settled" } :
             task' = [task EXCEPT ![e] = v] /\ task[e] \notin { "none", "settled" }
      BY <1>6, <2>2 DEF TaskNext, TaskStart, TaskGate, TaskInsert, TaskArchived, TaskFails, TaskPc
    <3>2. UNCHANGED << pc, offered, inFlight, slotWaiter, outcome >>
      BY <1>6, <2>2 DEF TaskNext, TaskStart, TaskGate, TaskInsert, TaskArchived, TaskFails
    <3>3. \A d \in Emails : task'[d] \in { "none", "settled" } <=> task[d] \in { "none", "settled" }
      BY <3>1 DEF TypeOK
    <3>4. \A d \in Emails : task'[d] # "none" => task[d] # "none"
      BY <3>1 DEF TypeOK
    <3> QED
      BY <3>2, <3>3, <3>4
  <2> QED
    BY <2>1, <2>2
<1>7. CASE Crash \/ NextRun
  <2>1. inFlight' = {} /\ ~ slotWaiter' /\ task' = [e \in Emails |-> "none"]
    BY <1>7 DEF Crash, NextRun
  <2>2. inFlight' = { e \in Emails : task'[e] \notin { "none", "settled" } }
    BY <2>1
  <2>3. Cardinality(inFlight') = 0
    BY <2>1, FS_EmptySet
  <2> QED
    BY <1>0, <1>7, <2>1, <2>2, <2>3 DEF Crash, NextRun
<1>8. CASE UNCHANGED vars
  BY <1>8 DEF vars
<1> QED
  BY <1>1, <1>2, <1>3, <1>4, <1>5, <1>6, <1>7, <1>8 DEF Next, LoopNext

\* The two invariants so far, of every reachable state.
LEMMA LoopCorrect == Spec => [](TypeOK /\ LoopInv)
<1>1. Init => LoopInv
  BY InitLoop
<1>2. TypeOK /\ TypeOK' /\ LoopInv /\ [Next]_vars => LoopInv'
  BY NextLoop
<1> QED
  BY <1>1, <1>2, TypeCorrect, PTL DEF Spec

\* At most emailConcurrency messages are in memory: a slot freed by a settling
\* task is taken by the one message the loop was holding.
THEOREM SlotsBoundedAlways == Spec => []SlotsBounded
<1>1. LoopInv => SlotsBounded
  BY DEF LoopInv, SlotsBounded
<1> QED
  BY <1>1, LoopCorrect, PTL

\* Both ways out of the loop, Promise.all and the catch block's allSettled, wait
\* for every task before the mailbox is reported.
THEOREM ReportedMeansSettledAlways == Spec => []ReportedMeansSettled
<1>1. TypeOK /\ LoopInv => ReportedMeansSettled
  BY DEF TypeOK, LoopInv, ReportedMeansSettled
<1> QED
  BY <1>1, LoopCorrect, PTL

-----------------------------------------------------------------------------
(* The per-key chains                                                       *)

Keyed(k) == { e \in inFlight : KeyOf[e] = k }

\* The tasks in flight under one key are totally ordered by ahead; each waits
\* for the one right before it, and keyed names the last.
ChainInv ==
    /\ \A e \in Emails : ahead[e] \subseteq Keyed(KeyOf[e]) \ {e}
    /\ \A e \in Emails \ inFlight : ahead[e] = {}
    /\ \A d, e \in inFlight : KeyOf[d] = KeyOf[e] => d = e \/ d \in ahead[e] \/ e \in ahead[d]
    /\ \A e \in inFlight : prior[e] = NoEmail \/ prior[e] \in offered
    /\ \A e \in inFlight : ahead[e] = IF prior[e] \in inFlight
                                      THEN ahead[prior[e]] \cup { prior[e] } ELSE {}
    /\ \A k \in Keys : keyed[k] = NoEmail => Keyed(k) = {}
    /\ \A k \in Keys : keyed[k] # NoEmail =>
          keyed[k] \in Keyed(k) /\ Keyed(k) = ahead[keyed[k]] \cup { keyed[k] }
    /\ \A e \in Emails : task[e] \in { "gate", "insert", "attach", "landed" } => ahead[e] = {}

LEMMA InitChain == Init => ChainInv
  BY ConstantsAssumption DEF Init, ChainInv, Keyed

\* Steps that leave the chains alone.
LEMMA ChainKept ==
    ASSUME ChainInv, UNCHANGED << taskVars >>, offered \subseteq offered'
    PROVE  ChainInv'
  BY DEF ChainInv, Keyed, taskVars

\* A message that joins goes behind the last of its key.
LEMMA YieldChain ==
    ASSUME TypeOK, LoopInv, ChainInv, NEW e \in Emails, Yield(e)
    PROVE  ChainInv'
<1> DEFINE k == KeyOf[e]
<1>1. /\ e \notin inFlight /\ inFlight' = inFlight \cup {e} /\ e \notin offered
      /\ offered' = offered \cup {e} /\ inFlight \subseteq offered /\ k \in Keys
      /\ e # NoEmail /\ NoEmail \notin inFlight
  BY ConstantsAssumption DEF Yield, TypeOK, LoopInv
<1>2. /\ prior' = [prior EXCEPT ![e] = keyed[k]]
      /\ keyed' = [keyed EXCEPT ![k] = e]
      /\ ahead' = [ahead EXCEPT ![e] = Keyed(k)]
      /\ task' = [task EXCEPT ![e] = "waiting"]
  BY DEF Yield, Keyed
<1>3. /\ \A j \in Keys : Keyed(j)' = IF j = k THEN Keyed(k) \cup {e} ELSE Keyed(j)
      /\ e \notin Keyed(k)
  BY <1>1 DEF Keyed
<1>4. /\ ahead'[e] = Keyed(k) /\ prior'[e] = keyed[k] /\ task'[e] = "waiting"
      /\ \A d \in Emails \ {e} : ahead'[d] = ahead[d] /\ prior'[d] = prior[d] /\ task'[d] = task[d]
      /\ keyed'[k] = e /\ \A j \in Keys \ {k} : keyed'[j] = keyed[j]
  BY <1>1, <1>2 DEF TypeOK
<1>5. \A d \in Emails : ahead'[d] \subseteq Keyed(KeyOf[d])' \ {d}
  BY <1>1, <1>3, <1>4, ConstantsAssumption DEF ChainInv
<1>6. \A d \in Emails \ inFlight' : ahead'[d] = {}
  BY <1>1, <1>4 DEF ChainInv
<1>7. \A d, f \in inFlight' : KeyOf[d] = KeyOf[f] => d = f \/ d \in ahead'[f] \/ f \in ahead'[d]
  BY <1>1, <1>4 DEF ChainInv, Keyed, TypeOK
<1>8. \A d \in inFlight' : prior'[d] = NoEmail \/ prior'[d] \in offered'
  BY <1>1, <1>4 DEF ChainInv, Keyed, TypeOK
<1>9. ASSUME NEW d \in inFlight'
      PROVE  ahead'[d] = IF prior'[d] \in inFlight' THEN ahead'[prior'[d]] \cup { prior'[d] } ELSE {}
  <2>1. CASE d = e
    <3>1. CASE keyed[k] = NoEmail
      BY <1>1, <1>4, <2>1, <3>1 DEF ChainInv
    <3>2. CASE keyed[k] # NoEmail
      <4>1. keyed[k] \in inFlight /\ keyed[k] # e /\ Keyed(k) = ahead[keyed[k]] \cup { keyed[k] }
        BY <1>1, <3>2 DEF ChainInv, Keyed
      <4>2. keyed[k] \in Emails \ {e} /\ keyed[k] \in inFlight'
        BY <1>1, <4>1 DEF TypeOK
      <4>3. ahead'[keyed[k]] = ahead[keyed[k]]
        BY <1>4, <4>2
      <4> QED
        BY <1>4, <2>1, <4>1, <4>2, <4>3
    <3> QED
      BY <3>1, <3>2
  <2>2. CASE d # e
    <3>1. d \in inFlight /\ prior'[d] = prior[d] /\ ahead'[d] = ahead[d] /\ prior[d] # e
      BY <1>1, <1>4, <2>2 DEF ChainInv, TypeOK
    <3>2. prior[d] \in inFlight => ahead'[prior[d]] = ahead[prior[d]]
      BY <1>4, <3>1 DEF TypeOK
    <3> QED
      BY <1>1, <3>1, <3>2 DEF ChainInv
  <2> QED
    BY <2>1, <2>2
<1>10. \A j \in Keys : keyed'[j] = NoEmail => Keyed(j)' = {}
  BY <1>1, <1>3, <1>4 DEF ChainInv
<1>11. ASSUME NEW j \in Keys, keyed'[j] # NoEmail
       PROVE  keyed'[j] \in Keyed(j)' /\ Keyed(j)' = ahead'[keyed'[j]] \cup { keyed'[j] }
  <2>1. CASE j = k
    BY <1>3, <1>4, <2>1
  <2>2. CASE j # k
    <3>1. keyed'[j] = keyed[j] /\ keyed[j] \in Keyed(j) /\ Keyed(j)' = Keyed(j)
      BY <1>3, <1>4, <1>11, <2>2 DEF ChainInv
    <3>2. keyed[j] # e /\ keyed[j] \in Emails
      BY <1>1, <3>1 DEF Keyed, TypeOK
    <3> QED
      BY <1>4, <1>11, <3>1, <3>2 DEF ChainInv
  <2> QED
    BY <2>1, <2>2
<1>12. \A d \in Emails : task'[d] \in { "gate", "insert", "attach", "landed" } => ahead'[d] = {}
  BY <1>4 DEF ChainInv
<1> QED
  BY <1>5, <1>6, <1>7, <1>8, <1>9, <1>10, <1>11, <1>12 DEF ChainInv

\* A task that settles is the first of its key, so the chain stays in order.
LEMMA SettleChain ==
    ASSUME TypeOK, LoopInv, ChainInv, NEW e \in Emails, TaskSettles(e)
    PROVE  ChainInv'
<1> DEFINE k == KeyOf[e]
<1>1. /\ e \in inFlight /\ inFlight' = inFlight \ {e} /\ k \in Keys /\ ahead[e] = {}
      /\ UNCHANGED << prior, offered >> /\ e # NoEmail /\ inFlight \subseteq Emails
  BY ConstantsAssumption DEF TaskSettles, TypeOK, LoopInv, ChainInv
<1>2. /\ \A d \in Emails : ahead'[d] = ahead[d] \ {e}
      /\ \A d \in Emails : task'[d] = IF d = e THEN "settled" ELSE task[d]
      /\ \A j \in Keys : keyed'[j] = IF j = k /\ keyed[k] = e THEN NoEmail ELSE keyed[j]
  BY <1>1 DEF TaskSettles, TypeOK
<1>3. \A j \in Keys : Keyed(j)' = Keyed(j) \ {e}
  BY <1>1 DEF Keyed
<1>4. \A d \in Emails : ahead'[d] \subseteq Keyed(KeyOf[d])' \ {d}
  BY <1>2, <1>3, ConstantsAssumption DEF ChainInv
<1>5. \A d \in Emails \ inFlight' : ahead'[d] = {}
  BY <1>1, <1>2 DEF ChainInv
<1>6. \A d, f \in inFlight' : KeyOf[d] = KeyOf[f] => d = f \/ d \in ahead'[f] \/ f \in ahead'[d]
  BY <1>1, <1>2 DEF ChainInv
<1>7. \A d \in inFlight' : prior'[d] = NoEmail \/ prior'[d] \in offered'
  BY <1>1 DEF ChainInv
<1>8. ASSUME NEW d \in inFlight'
      PROVE  ahead'[d] = IF prior'[d] \in inFlight' THEN ahead'[prior'[d]] \cup { prior'[d] } ELSE {}
  <2>1. /\ d \in inFlight /\ prior'[d] = prior[d] /\ ahead'[d] = ahead[d] \ {e}
        /\ ahead[d] = IF prior[d] \in inFlight THEN ahead[prior[d]] \cup { prior[d] } ELSE {}
    BY <1>1, <1>2 DEF ChainInv
  <2>2. CASE prior[d] = e
    BY <1>1, <2>1, <2>2
  <2>3. CASE prior[d] # e /\ prior[d] \in inFlight
    BY <1>1, <1>2, <2>1, <2>3
  <2>4. CASE prior[d] \notin inFlight
    BY <1>1, <2>1, <2>4
  <2> QED
    BY <2>2, <2>3, <2>4
<1>9. ASSUME NEW j \in Keys
      PROVE  /\ keyed'[j] = NoEmail => Keyed(j)' = {}
             /\ keyed'[j] # NoEmail =>
                   keyed'[j] \in Keyed(j)' /\ Keyed(j)' = ahead'[keyed'[j]] \cup { keyed'[j] }
  <2>1. CASE keyed[j] = NoEmail
    BY <1>2, <1>3, <2>1 DEF ChainInv
  <2>2. CASE keyed[j] = e
    <3>1. j = k /\ keyed'[j] = NoEmail /\ Keyed(j) = {e}
      BY <1>1, <1>2, <2>2 DEF ChainInv, Keyed
    <3> QED
      BY <1>3, <3>1
  <2>3. CASE keyed[j] # NoEmail /\ keyed[j] # e
    <3>1. /\ keyed'[j] = keyed[j] /\ keyed[j] \in Keyed(j)
          /\ Keyed(j) = ahead[keyed[j]] \cup { keyed[j] }
      BY <1>2, <2>3 DEF ChainInv
    <3>2. keyed[j] \in Emails /\ ahead'[keyed[j]] = ahead[keyed[j]] \ {e}
      BY <1>1, <1>2, <3>1 DEF Keyed
    <3> QED
      BY <1>3, <2>3, <3>1, <3>2
  <2> QED
    BY <2>1, <2>2, <2>3
<1>10. \A d \in Emails : task'[d] \in { "gate", "insert", "attach", "landed" } => ahead'[d] = {}
  BY <1>2 DEF ChainInv
<1> QED
  BY <1>4, <1>5, <1>6, <1>7, <1>8, <1>9, <1>10 DEF ChainInv

\* The other steps of a task: it starts only once nothing is ahead of it.
LEMMA TaskChain ==
    ASSUME TypeOK, LoopInv, ChainInv, NEW e \in Emails, TaskNext(e), ~ TaskSettles(e)
    PROVE  ChainInv'
<1>1. UNCHANGED << offered, prior, keyed, inFlight, ahead >>
  BY DEF TaskNext, TaskStart, TaskGate, TaskInsert, TaskArchived, TaskFails
<1>2. ahead[e] = {}
  <2>1. CASE TaskStart(e)
    <3>1. e \in inFlight /\ prior[e] \notin inFlight
      BY <2>1, ConstantsAssumption DEF TaskStart, LoopInv
    <3> QED
      BY <3>1 DEF ChainInv
  <2>2. CASE ~ TaskStart(e)
    BY <2>2 DEF TaskNext, TaskGate, TaskInsert, TaskArchived, TaskFails, ChainInv
  <2> QED
    BY <2>1, <2>2
<1>3. \A d \in Emails \ {e} : task'[d] = task[d]
  BY DEF TaskNext, TaskStart, TaskGate, TaskInsert, TaskArchived, TaskFails, TypeOK
<1>4. \A d \in Emails : task'[d] \in { "gate", "insert", "attach", "landed" } => ahead'[d] = {}
  BY <1>1, <1>2, <1>3 DEF ChainInv
<1>5. \A j \in Keys : Keyed(j)' = Keyed(j)
  BY <1>1 DEF Keyed
<1>6. \A d \in Emails : ahead'[d] \subseteq Keyed(KeyOf[d])' \ {d}
  BY <1>1, <1>5, ConstantsAssumption DEF ChainInv
<1> QED
  BY <1>1, <1>4, <1>5, <1>6 DEF ChainInv

LEMMA NextChain == TypeOK /\ LoopInv /\ ChainInv /\ [Next]_vars => ChainInv'
<1> SUFFICES ASSUME TypeOK, LoopInv, ChainInv, [Next]_vars PROVE ChainInv'
  OBVIOUS
<1>1. ASSUME NEW e \in Emails, SkipKnown(e) \/ DropDraft(e) \/ GiveUp(e) PROVE ChainInv'
  BY <1>1, ChainKept DEF SkipKnown, DropDraft, GiveUp
<1>2. ASSUME NEW e \in Emails, Yield(e) PROVE ChainInv'
  BY <1>2, YieldChain
<1>3. CASE \/ ListingEnds \/ RecordFail \/ Record \/ Report \/ SlotResume \/ Drain
           \/ FlushOk \/ FlushFail
           \/ \E what \in { "error", "unavailable" } : ConnectorThrows(what)
  <2>1. UNCHANGED taskVars /\ offered' = offered
    BY <1>3 DEF ListingEnds, RecordFail, Record, Report, SlotResume, Drain, FlushOk, FlushFail,
                ConnectorThrows
  <2> QED
    BY <2>1, ChainKept
<1>4. ASSUME NEW e \in Emails, TaskNext(e) PROVE ChainInv'
  BY <1>4, SettleChain, TaskChain
<1>5. CASE Crash \/ NextRun
  <2>1. /\ inFlight' = {} /\ task' = [e \in Emails |-> "none"]
        /\ \A e \in Emails : ahead'[e] = {}
        /\ \A k \in Keys : keyed'[k] = NoEmail
    <3>1. CASE Crash
      BY <3>1 DEF Crash
    <3>2. CASE NextRun
      <4>1. pc = "done" /\ inFlight = {} /\ UNCHANGED << inFlight, keyed, ahead >>
            /\ task' = [e \in Emails |-> "none"]
        BY <3>2 DEF NextRun, LoopInv
      <4>2. \A e \in Emails : ahead[e] = {}
        BY <4>1 DEF ChainInv
      <4>3. \A k \in Keys : keyed[k] = NoEmail
        BY <4>1 DEF ChainInv, Keyed
      <4> QED
        BY <4>1, <4>2, <4>3
    <3> QED
      BY <1>5, <3>1, <3>2
  <2> QED
    BY <2>1 DEF ChainInv, Keyed
<1>6. CASE UNCHANGED vars
  BY <1>6, ChainKept DEF vars, taskVars
<1> QED
  BY <1>1, <1>2, <1>3, <1>4, <1>5, <1>6 DEF Next, LoopNext

LEMMA ChainCorrect == Spec => [](TypeOK /\ LoopInv /\ ChainInv)
<1>1. Init => ChainInv
  BY InitChain
<1>2. (TypeOK /\ LoopInv) /\ (TypeOK /\ LoopInv)' /\ ChainInv /\ [Next]_vars => ChainInv'
  BY NextChain
<1> QED
  BY <1>1, <1>2, LoopCorrect, PTL DEF Spec

\* Two tasks past their wait have nothing ahead of them, and of two under one
\* key one is ahead of the other.
LEMMA ExaminedAlone == TypeOK /\ LoopInv /\ ChainInv => KeyExaminedAlone
<1> SUFFICES ASSUME TypeOK, LoopInv, ChainInv, NEW d \in Emails, NEW e \in Emails,
                    Examining(d), Examining(e), KeyOf[d] = KeyOf[e]
             PROVE  d = e
  BY DEF KeyExaminedAlone
<1>1. d \in inFlight /\ e \in inFlight /\ ahead[d] = {} /\ ahead[e] = {}
  BY DEF Examining, LoopInv, ChainInv
<1> QED
  BY <1>1 DEF ChainInv

\* The keyed promise chain is a lock: of the messages under one dedup key at
\* most one is between processEmail's dedup check and the end of its work.
THEOREM KeyExaminedAloneAlways == Spec => []KeyExaminedAlone
  BY ExaminedAlone, ChainCorrect, PTL

-----------------------------------------------------------------------------
(* The rows                                                                 *)

\* Between a task's dedup check and its insert nothing else can insert its key.
RowsInv ==
    /\ KeyArchivedOnce
    /\ \A e \in Emails : task[e] = "insert" => \A r \in rows : KeyOf[r] # KeyOf[e]

LEMMA NextRows ==
    TypeOK /\ KeyExaminedAlone /\ RowsInv /\ [Next]_vars => RowsInv'
<1> SUFFICES ASSUME TypeOK, KeyExaminedAlone, RowsInv, [Next]_vars PROVE RowsInv'
  OBVIOUS
<1>1. CASE LoopNext
  <2>1. rows' = rows
    BY <1>1 DEF LoopNext, SkipKnown, DropDraft, GiveUp, Yield, ListingEnds, RecordFail, Record,
                Report, SlotResume, Drain, FlushOk, FlushFail, ConnectorThrows
  <2>2. \A d \in Emails : task'[d] = "insert" => task[d] = "insert"
    BY <1>1 DEF LoopNext, SkipKnown, DropDraft, GiveUp, Yield, ListingEnds, RecordFail, Record,
                Report, SlotResume, Drain, FlushOk, FlushFail, ConnectorThrows, taskVars, TypeOK
  <2> QED
    BY <2>1, <2>2 DEF RowsInv, KeyArchivedOnce
<1>2. ASSUME NEW e \in Emails, TaskInsert(e) PROVE RowsInv'
  <2>1. /\ rows' = rows \cup {e} /\ task[e] = "insert"
        /\ \A d \in Emails : task'[d] = IF d = e THEN "attach" ELSE task[d]
    BY <1>2 DEF TaskInsert, TypeOK
  <2>2. \A d \in Emails : task'[d] = "insert" => KeyOf[d] # KeyOf[e]
    BY <2>1 DEF KeyExaminedAlone, Examining
  <2> QED
    BY <2>1, <2>2 DEF RowsInv, KeyArchivedOnce
<1>3. ASSUME NEW e \in Emails, TaskNext(e), ~ TaskInsert(e) PROVE RowsInv'
  <2>1. rows' = rows
    BY <1>3 DEF TaskNext, TaskStart, TaskGate, TaskArchived, TaskFails, TaskSettles
  <2>2. \A d \in Emails : task'[d] = "insert" =>
           task[d] = "insert" \/ ~ \E r \in rows : KeyOf[r] = KeyOf[d]
    BY <1>3 DEF TaskNext, TaskStart, TaskGate, TaskArchived, TaskFails, TaskSettles, TypeOK
  <2> QED
    BY <2>1, <2>2 DEF RowsInv, KeyArchivedOnce
<1>4. CASE Crash \/ NextRun
  BY <1>4 DEF Crash, NextRun, RowsInv, KeyArchivedOnce
<1>5. CASE UNCHANGED vars
  BY <1>5 DEF vars, RowsInv, KeyArchivedOnce
<1> QED
  BY <1>1, <1>2, <1>3, <1>4, <1>5 DEF Next

LEMMA RowsCorrect == Spec => [](TypeOK /\ LoopInv /\ KeyExaminedAlone /\ RowsInv)
<1>1. Init => RowsInv
  BY DEF Init, RowsInv, KeyArchivedOnce
<1>2. TypeOK /\ KeyExaminedAlone /\ RowsInv /\ [Next]_vars => RowsInv'
  BY NextRows
<1> QED
  BY <1>1, <1>2, LoopCorrect, KeyExaminedAloneAlways, PTL DEF Spec

\* However many copies of a message a mailbox holds, however its tasks interleave,
\* fail or die, and however often the job is run again, its key has one row:
\* archived_emails has no unique index, the chain is what stands in for it.
THEOREM KeyArchivedOnceAlways == Spec => []KeyArchivedOnce
<1>1. RowsInv => KeyArchivedOnce
  BY DEF RowsInv
<1> QED
  BY <1>1, RowsCorrect, PTL

-----------------------------------------------------------------------------
(* The contract                                                             *)

\* While a run lasts, a message it was offered is archived, counted as failed, or
\* still on its way to one of the two.
AccountedFor ==
    pc # "done" =>
        \A e \in offered \ Drafts :
            \/ Contract!Archived(e)
            \/ e \in failed
            \/ task[e] \in { "waiting", "gate", "insert" }

LEMMA NextAccounted == TypeOK /\ LoopInv /\ AccountedFor /\ [Next]_vars => AccountedFor'
<1> SUFFICES ASSUME TypeOK, LoopInv, AccountedFor, [Next]_vars PROVE AccountedFor'
  OBVIOUS
<1> USE DEF AccountedFor, Contract!Archived
<1>1. ASSUME NEW e \in Emails, SkipKnown(e) \/ DropDraft(e) \/ GiveUp(e) PROVE AccountedFor'
  BY <1>1 DEF SkipKnown, DropDraft, GiveUp, loopVars, taskVars
<1>2. ASSUME NEW e \in Emails, Yield(e) PROVE AccountedFor'
  <2>1. \A d \in Emails : task'[d] = IF d = e THEN "waiting" ELSE task[d]
    BY <1>2 DEF Yield, TypeOK
  <2>2. offered' = offered \cup {e} /\ UNCHANGED << rows, failed >> /\ pc # "done"
    BY <1>2 DEF Yield
  <2>3. offered \subseteq Emails
    BY DEF TypeOK
  <2> QED
    BY <2>1, <2>2, <2>3
<1>3. CASE \/ ListingEnds \/ RecordFail \/ Record \/ Report \/ SlotResume \/ Drain
           \/ FlushOk \/ FlushFail
           \/ \E what \in { "error", "unavailable" } : ConnectorThrows(what)
  <2>1. UNCHANGED << offered, task, rows, failed >> /\ pc # "done"
    BY <1>3 DEF ListingEnds, RecordFail, Record, Report, SlotResume, Drain, FlushOk, FlushFail,
                ConnectorThrows, taskVars
  <2> QED
    BY <2>1
<1>4. ASSUME NEW e \in Emails, TaskNext(e) PROVE AccountedFor'
  <2>1. UNCHANGED << pc, offered >> /\ failed \subseteq failed' /\ rows \subseteq rows'
    BY <1>4 DEF TaskNext, TaskStart, TaskGate, TaskInsert, TaskArchived, TaskFails, TaskSettles,
                loopVars
  <2>2. offered \subseteq Emails /\ \A d \in Emails \ {e} : task'[d] = task[d]
    BY <1>4 DEF TaskNext, TaskStart, TaskGate, TaskInsert, TaskArchived, TaskFails, TaskSettles,
                TypeOK
  <2>3. task[e] \in { "waiting", "gate", "insert" } =>
           \/ task'[e] \in { "waiting", "gate", "insert" }
           \/ e \in failed'
           \/ \E r \in rows' : KeyOf[r] = KeyOf[e]
    BY <1>4 DEF TaskNext, TaskStart, TaskGate, TaskInsert, TaskArchived, TaskFails, TaskSettles,
                TypeOK
  <2> QED
    BY <2>1, <2>2, <2>3
<1>5. CASE Crash \/ NextRun
  BY <1>5 DEF Crash, NextRun
<1>6. CASE UNCHANGED vars
  BY <1>6 DEF vars
<1> QED
  BY <1>1, <1>2, <1>3, <1>4, <1>5, <1>6 DEF Next, LoopNext

\* Every step of the job is a step of the contract, or none.
LEMMA StepKeepsContract ==
    TypeOK /\ LoopInv /\ RowsInv /\ AccountedFor /\ [Next]_vars => [Contract!Next]_(Contract!vars)
<1> SUFFICES ASSUME TypeOK, LoopInv, RowsInv, AccountedFor, [Next]_vars
             PROVE  Contract!Next \/ UNCHANGED Contract!vars
  OBVIOUS
<1> USE DEF Contract!vars
<1>1. ASSUME NEW e \in Emails, SkipKnown(e) \/ DropDraft(e) \/ GiveUp(e) \/ Yield(e)
      PROVE  Contract!Offer(e)
  BY <1>1 DEF SkipKnown, DropDraft, GiveUp, Yield, Contract!Offer, LoopInv, loopVars
<1>2. CASE \/ ListingEnds \/ RecordFail \/ SlotResume \/ Drain \/ FlushOk \/ FlushFail
           \/ \E what \in { "error", "unavailable" } : ConnectorThrows(what)
  BY <1>2 DEF ListingEnds, RecordFail, SlotResume, Drain, FlushOk, FlushFail, ConnectorThrows
<1>3. CASE Record
  <2>1. outcome = "none" /\ inFlight = {} /\ UNCHANGED << offered, rows >> /\ offered \subseteq Emails
    BY <1>3 DEF Record, LoopInv, TypeOK
  <2>2. failed = {} => \A e \in offered \ Drafts : Contract!Archived(e)
    BY <1>3, <2>1 DEF Record, LoopInv, AccountedFor
  <2>3. \E o \in Contract!Outcomes : Contract!Report(o)
    BY <1>3, <2>1, <2>2 DEF Record, Contract!Outcomes, Contract!Report
  <2> QED
    BY <2>3 DEF Contract!Next
<1>4. CASE Report \/ Crash
  <2>1. outcome = "none" /\ UNCHANGED << offered, rows >>
    BY <1>4 DEF Report, Crash, LoopInv
  <2>2. \E o \in Contract!Outcomes \ { "success" } : outcome' = o
    BY <1>4 DEF Report, Crash, Contract!Outcomes
  <2> QED
    BY <2>1, <2>2 DEF Contract!Next, Contract!Report
<1>5. ASSUME NEW e \in Emails, TaskInsert(e) PROVE Contract!Archive(e)
  <2>1. outcome = "none" /\ e \in offered \ Drafts
    BY <1>5 DEF TaskInsert, LoopInv
  <2>2. ~ Contract!Archived(e)
    BY <1>5 DEF TaskInsert, RowsInv, Contract!Archived
  <2> QED
    BY <1>5, <2>1, <2>2 DEF TaskInsert, Contract!Archive, loopVars
<1>6. ASSUME NEW e \in Emails, TaskNext(e), ~ TaskInsert(e) PROVE UNCHANGED Contract!vars
  BY <1>6 DEF TaskNext, TaskStart, TaskGate, TaskArchived, TaskFails, TaskSettles, loopVars
<1>7. CASE NextRun
  BY <1>7 DEF NextRun, LoopInv, Contract!Next, Contract!Begin
<1>8. CASE UNCHANGED vars
  BY <1>8 DEF vars
<1> QED
  BY <1>1, <1>2, <1>3, <1>4, <1>5, <1>6, <1>7, <1>8 DEF Next, LoopNext, Contract!Next

\* The job implements the contract's safety: it archives only what it was offered
\* and not archived under its key, and reports a success only when every message
\* it was offered is archived, drafts apart.  (That every run ends is left to
\* the model checker.)
THEOREM ImplementsContract == Spec => Contract!Spec
<1>1. Init => Contract!Init /\ AccountedFor
  BY DEF Init, Contract!Init, AccountedFor
<1>2. TypeOK /\ LoopInv /\ AccountedFor /\ [Next]_vars => AccountedFor'
  BY NextAccounted
<1>3. TypeOK /\ LoopInv /\ RowsInv /\ AccountedFor /\ [Next]_vars => [Contract!Next]_(Contract!vars)
  BY StepKeepsContract
<1> QED
  BY <1>1, <1>2, <1>3, RowsCorrect, PTL DEF Spec, Contract!Spec

-----------------------------------------------------------------------------
(* Hand-over to the indexing queue                                          *)

\* A row this run inserted is queued, counted as failed, buffered, part of the
\* enqueue under way, or its task is still to buffer it.
QueueInv ==
    /\ outcome # "crashed" =>
          \A e \in fresh : e \in queued \cup failed \cup batch \cup flushing \/ task[e] = "attach"
    /\ flushing # {} => pc \in { "flush", "finalFlush", "lastFlush" }
    /\ pc \in { "finalFlush", "record" } => batch = {}
    /\ outcome \in { "success", "partial" } => batch = {}

LEMMA NextQueue == TypeOK /\ LoopInv /\ QueueInv /\ [Next]_vars => QueueInv'
<1> SUFFICES ASSUME TypeOK, LoopInv, QueueInv, [Next]_vars PROVE QueueInv'
  OBVIOUS
<1> USE DEF QueueInv, loopVars, taskVars
<1>0. fresh \subseteq Emails
  BY DEF TypeOK
<1>1. ASSUME NEW e \in Emails, SkipKnown(e) \/ DropDraft(e) \/ GiveUp(e) PROVE QueueInv'
  BY <1>1 DEF SkipKnown, DropDraft, GiveUp
<1>2. ASSUME NEW e \in Emails, Yield(e) PROVE QueueInv'
  <2>1. /\ pc = "pull" /\ flushing = {} /\ outcome = "none"
        /\ UNCHANGED << queued, failed, fresh, outcome >> /\ task[e] # "attach"
        /\ \A d \in Emails : task'[d] = IF d = e THEN "waiting" ELSE task[d]
    BY <1>2 DEF Yield, TypeOK, LoopInv
  <2>2. \/ pc' \in { "pull", "slot" } /\ UNCHANGED << flushing, batch >>
        \/ pc' = "flush" /\ flushing' = batch /\ batch' = {}
    BY <1>2 DEF Yield, CheckBatch
  <2> QED
    BY <1>0, <2>1, <2>2
<1>3. CASE \/ ListingEnds \/ RecordFail \/ Record \/ Report
           \/ \E what \in { "error", "unavailable" } : ConnectorThrows(what)
  BY <1>3 DEF ListingEnds, RecordFail, Record, Report, ConnectorThrows, LoopInv
<1>4. CASE SlotResume \/ Drain
  <2>1. /\ pc \in { "slot", "drain", "settle" } /\ flushing = {} /\ outcome = "none"
        /\ UNCHANGED << queued, failed, fresh, outcome, task >>
    BY <1>4 DEF SlotResume, Drain, LoopInv
  <2>2. \/ pc' \notin { "finalFlush", "record" } /\ UNCHANGED << flushing, batch >>
        \/ batch = {} /\ UNCHANGED << flushing, batch >>
        \/ pc' \in { "flush", "finalFlush", "lastFlush" } /\ flushing' = batch /\ batch' = {}
    BY <1>4 DEF SlotResume, Drain, CheckBatch
  <2> QED
    BY <2>1, <2>2
<1>5. CASE FlushOk
  BY <1>5 DEF FlushOk, LoopInv
<1>6. CASE FlushFail
  BY <1>6 DEF FlushFail, LoopInv
<1>7. ASSUME NEW e \in Emails, TaskNext(e) PROVE QueueInv'
  <2>1. /\ UNCHANGED << pc, flushing, queued, outcome >>
        /\ failed \subseteq failed' /\ batch \subseteq batch' /\ fresh' \subseteq fresh \cup {e}
        /\ \A d \in Emails \ {e} : task'[d] = task[d]
    BY <1>7 DEF TaskNext, TaskStart, TaskGate, TaskInsert, TaskArchived, TaskFails, TaskSettles,
                TypeOK
  <2>2. e \in inFlight
    BY <1>7 DEF TaskNext, TaskStart, TaskGate, TaskInsert, TaskArchived, TaskFails, TaskSettles,
                LoopInv
  <2>3. \/ task'[e] = "attach"
        \/ e \notin fresh' \cup {e}
        \/ task[e] # "attach" /\ fresh' = fresh
        \/ e \in batch' \/ e \in failed'
    BY <1>7 DEF TaskNext, TaskStart, TaskGate, TaskInsert, TaskArchived, TaskFails, TaskSettles,
                TypeOK
  <2>4. pc # "record" /\ pc # "finalFlush" /\ pc # "done"
    BY <2>2 DEF LoopInv
  <2> QED
    BY <1>0, <2>1, <2>3, <2>4 DEF LoopInv
<1>8. CASE Crash \/ NextRun
  BY <1>8 DEF Crash, NextRun
<1>9. CASE UNCHANGED vars
  BY <1>9 DEF vars
<1> QED
  BY <1>1, <1>2, <1>3, <1>4, <1>5, <1>6, <1>7, <1>8, <1>9 DEF Next, LoopNext

\* A run that ends by itself leaves no row of its own behind that search will
\* never learn of, save those of messages it counted as failed and those it logs
\* as still buffered.
THEOREM ArchivedIsQueuedAlways == Spec => []ArchivedIsQueued
<1>1. Init => QueueInv
  BY DEF Init, QueueInv
<1>2. (TypeOK /\ LoopInv) /\ QueueInv /\ [Next]_vars => QueueInv'
  BY NextQueue
<1>3. TypeOK /\ LoopInv /\ QueueInv => ArchivedIsQueued
  <2> SUFFICES ASSUME TypeOK, LoopInv, QueueInv, outcome \notin { "none", "crashed" }
               PROVE  /\ fresh \subseteq queued \cup failed \cup batch
                      /\ outcome \in { "success", "partial" } => batch = {}
    BY DEF ArchivedIsQueued
  <2>1. pc = "done" /\ inFlight = {} /\ flushing = {}
    BY DEF LoopInv, QueueInv
  <2>2. \A e \in Emails : task[e] # "attach"
    BY <2>1 DEF LoopInv
  <2> QED
    BY <2>1, <2>2 DEF QueueInv, TypeOK
<1> QED
  BY <1>1, <1>2, <1>3, LoopCorrect, PTL DEF Spec

-----------------------------------------------------------------------------
(* The batch                                                                *)

\* Tasks that may still add to the batch.
Unbuffered == { e \in Emails : task[e] \in { "waiting", "gate", "insert", "attach" } }

\* The buffer and what may still land in it, together.
BatchInv ==
    /\ pc \in { "pull", "flush" }
          => Cardinality(batch \cup Unbuffered) <= (BatchSize + Concurrency) - 2
    /\ pc = "slot" => Cardinality(batch \cup Unbuffered) <= (BatchSize + Concurrency) - 1

LEMMA CardinalityMonotone ==
    ASSUME NEW S, NEW T, IsFiniteSet(T), S \subseteq T
    PROVE  IsFiniteSet(S) /\ Cardinality(S) \in Nat /\ Cardinality(T) \in Nat
           /\ Cardinality(S) <= Cardinality(T)
  BY FS_Subset, FS_CardinalityType

LEMMA CardinalityUnion ==
    ASSUME NEW S, NEW T, IsFiniteSet(S), IsFiniteSet(T)
    PROVE  Cardinality(S \cup T) <= Cardinality(S) + Cardinality(T)
<1>1. Cardinality(S \cup T) = Cardinality(S) + Cardinality(T) - Cardinality(S \cap T)
  BY FS_Union
<1>2. IsFiniteSet(S \cap T)
  BY FS_Intersection
<1> QED
  BY <1>1, <1>2, FS_CardinalityType

LEMMA CardinalityAdd ==
    ASSUME NEW S, NEW x, IsFiniteSet(S)
    PROVE  IsFiniteSet(S \cup {x}) /\ Cardinality(S) \in Nat /\ Cardinality(S \cup {x}) \in Nat
           /\ Cardinality(S \cup {x}) <= Cardinality(S) + 1
<1>1. Cardinality(S) \in Nat
  BY FS_CardinalityType
<1>2. /\ IsFiniteSet(S \cup {x})
      /\ Cardinality(S \cup {x}) = IF x \in S THEN Cardinality(S) ELSE Cardinality(S) + 1
  BY FS_AddElement, Zenon
<1> QED
  BY <1>1, <1>2

\* With b buffered and f in flight, u of them still to be buffered.
LEMMA BufferedCount ==
    ASSUME NEW b, NEW f, NEW u, b \subseteq Emails, f \subseteq Emails, u \subseteq f
    PROVE  /\ Cardinality(b) \in Nat /\ Cardinality(f) \in Nat /\ Cardinality(b \cup u) \in Nat
           /\ Cardinality(b \cup u) <= Cardinality(b) + Cardinality(f)
<1>1. IsFiniteSet(Emails)
  BY ConstantsAssumption
<1>2. IsFiniteSet(b) /\ IsFiniteSet(u) /\ IsFiniteSet(f) /\ IsFiniteSet(b \cup u)
  BY <1>1, FS_Subset
<1>3. Cardinality(u) <= Cardinality(f)
  BY <1>2, CardinalityMonotone
<1>4. Cardinality(b \cup u) <= Cardinality(b) + Cardinality(u)
  BY <1>2, CardinalityUnion
<1> QED
  BY <1>2, <1>3, <1>4, FS_CardinalityType

\* The end of the loop body leaves room for every slot but one, whatever the batch was.
LEMMA CheckedBatch ==
    ASSUME TypeOK', LoopInv', CheckBatch
    PROVE  BatchInv'
<1>0. BatchSize \in Nat \ {0} /\ Concurrency \in Nat \ {0}
  BY ConstantsAssumption
<1>1. Unbuffered' \subseteq inFlight' /\ inFlight' \subseteq Emails /\ batch' \subseteq Emails
  BY DEF Unbuffered, LoopInv, TypeOK
<1>2. /\ Cardinality(batch') \in Nat /\ Cardinality(inFlight') \in Nat
      /\ Cardinality((batch \cup Unbuffered)') \in Nat
      /\ Cardinality((batch \cup Unbuffered)') <= Cardinality(batch') + Cardinality(inFlight')
  BY <1>1, BufferedCount
<1>3. pc' \in { "pull", "flush" } /\ Cardinality(inFlight') < Concurrency
  BY DEF CheckBatch, LoopInv
<1>4. Cardinality(batch') <= BatchSize - 1
  <2>1. CASE batch' = {}
    BY <1>0, <2>1, FS_EmptySet
  <2>2. CASE batch' # {}
    BY <1>0, <1>2, <2>2 DEF CheckBatch
  <2> QED
    BY <2>1, <2>2
<1> QED
  BY <1>0, <1>2, <1>3, <1>4 DEF BatchInv

\* Steps that add nothing to the batch or to what may land in it.
LEMMA BatchShrinks ==
    ASSUME TypeOK, BatchInv, (batch \cup Unbuffered)' \subseteq batch \cup Unbuffered,
           \/ pc' \notin { "pull", "flush", "slot" }
           \/ pc' = pc
           \/ pc \in { "pull", "flush" }
    PROVE  BatchInv'
<1>0. BatchSize \in Nat \ {0} /\ Concurrency \in Nat \ {0}
  BY ConstantsAssumption
<1>1. IsFiniteSet(batch \cup Unbuffered)
  <2>1. batch \cup Unbuffered \subseteq Emails
    BY DEF TypeOK, Unbuffered
  <2> QED
    BY <2>1, FS_Subset, ConstantsAssumption
<1>2. /\ Cardinality((batch \cup Unbuffered)') \in Nat /\ Cardinality(batch \cup Unbuffered) \in Nat
      /\ Cardinality((batch \cup Unbuffered)') <= Cardinality(batch \cup Unbuffered)
  BY <1>1, CardinalityMonotone
<1> QED
  BY <1>0, <1>2 DEF BatchInv

LEMMA NextBatch ==
    TypeOK /\ TypeOK' /\ LoopInv /\ LoopInv' /\ BatchInv /\ [Next]_vars => BatchInv'
<1> SUFFICES ASSUME TypeOK, TypeOK', LoopInv, LoopInv', BatchInv, [Next]_vars PROVE BatchInv'
  OBVIOUS
<1>0. BatchSize \in Nat \ {0} /\ Concurrency \in Nat \ {0}
  BY ConstantsAssumption
<1>1. ASSUME NEW e \in Emails, SkipKnown(e) \/ DropDraft(e) \/ GiveUp(e) PROVE BatchInv'
  BY <1>1, BatchShrinks DEF SkipKnown, DropDraft, GiveUp, loopVars, taskVars, Unbuffered
<1>2. ASSUME NEW e \in Emails, Yield(e) PROVE BatchInv'
  <2>1. CASE Cardinality(inFlight') >= Concurrency
    <3>1. /\ pc = "pull" /\ pc' = "slot" /\ batch' = batch
          /\ Unbuffered' \subseteq Unbuffered \cup {e}
      BY <1>2, <2>1 DEF Yield, Unbuffered, TypeOK
    <3>2. /\ batch \cup Unbuffered \subseteq Emails
          /\ (batch \cup Unbuffered)' \subseteq (batch \cup Unbuffered) \cup {e}
      BY <3>1 DEF TypeOK, Unbuffered
    <3>3. IsFiniteSet(batch \cup Unbuffered)
      BY <3>2, FS_Subset, ConstantsAssumption
    <3>4. /\ Cardinality(batch \cup Unbuffered) \in Nat
          /\ IsFiniteSet((batch \cup Unbuffered) \cup {e})
          /\ Cardinality((batch \cup Unbuffered) \cup {e}) <= Cardinality(batch \cup Unbuffered) + 1
      BY <3>3, CardinalityAdd, Zenon
    <3>5. /\ Cardinality((batch \cup Unbuffered)') \in Nat
          /\ Cardinality((batch \cup Unbuffered) \cup {e}) \in Nat
          /\ Cardinality((batch \cup Unbuffered)') <= Cardinality((batch \cup Unbuffered) \cup {e})
      BY <3>2, <3>4, CardinalityMonotone
    <3> QED
      BY <1>0, <3>1, <3>4, <3>5 DEF BatchInv
  <2>2. CASE ~ (Cardinality(inFlight') >= Concurrency)
    BY <1>2, <2>2, CheckedBatch DEF Yield
  <2> QED
    BY <2>1, <2>2
<1>3. CASE SlotResume
  BY <1>3, CheckedBatch DEF SlotResume
<1>4. CASE FlushOk
  BY <1>4, BatchShrinks DEF FlushOk, taskVars, Unbuffered
<1>5. CASE FlushFail \/ Drain \/ ListingEnds \/ RecordFail \/ Record \/ Report
           \/ \E what \in { "error", "unavailable" } : ConnectorThrows(what)
  BY <1>5 DEF BatchInv, FlushFail, Drain, ListingEnds, RecordFail, Record, Report, ConnectorThrows
<1>6. ASSUME NEW e \in Emails, TaskNext(e) PROVE BatchInv'
  <2>1. pc' = pc
    BY <1>6 DEF TaskNext, TaskStart, TaskGate, TaskInsert, TaskArchived, TaskFails, TaskSettles,
                loopVars
  <2>2. (batch \cup Unbuffered)' \subseteq batch \cup Unbuffered
    <3>1. \A d \in Emails \ {e} : task'[d] = task[d]
      BY <1>6 DEF TaskNext, TaskStart, TaskGate, TaskInsert, TaskArchived, TaskFails, TaskSettles,
                  TypeOK
    <3>2. /\ batch' = batch \/ (batch' = batch \cup {e} /\ e \in Unbuffered)
          /\ e \in Unbuffered' => e \in Unbuffered
      BY <1>6 DEF TaskNext, TaskStart, TaskGate, TaskInsert, TaskArchived, TaskFails, TaskSettles,
                  TypeOK, Unbuffered
    <3> QED
      BY <3>1, <3>2 DEF Unbuffered
  <2> QED
    BY <2>1, <2>2, BatchShrinks
<1>7. CASE Crash
  BY <1>7 DEF Crash, BatchInv
<1>8. CASE NextRun
  <2>1. batch' = {} /\ Unbuffered' = {} /\ inFlight' = {}
    BY <1>8 DEF NextRun, Unbuffered, LoopInv
  <2>2. Cardinality((batch \cup Unbuffered)') = 0 /\ pc' = "pull"
    BY <1>8, <2>1, FS_EmptySet DEF NextRun
  <2> QED
    BY <1>0, <2>2 DEF BatchInv
<1>9. CASE UNCHANGED vars
  BY <1>9, BatchShrinks DEF vars, Unbuffered
<1> QED
  BY <1>1, <1>2, <1>3, <1>4, <1>5, <1>6, <1>7, <1>8, <1>9 DEF Next, LoopNext

\* The comment's bound on the batch, for every batch size and concurrency: the
\* loop looks at the batch only between two messages, and by then at most
\* emailConcurrency - 1 more have landed.
THEOREM BatchBoundedAlways == Spec => []BatchBounded
<1>0. BatchSize \in Nat \ {0} /\ Concurrency \in Nat \ {0}
  BY ConstantsAssumption
<1>1. Init => BatchInv
  <2> SUFFICES ASSUME Init PROVE BatchInv
    OBVIOUS
  <2>1. batch \cup Unbuffered = {} /\ pc = "pull"
    BY DEF Init, Unbuffered
  <2> QED
    BY <1>0, <2>1, FS_EmptySet DEF BatchInv
<1>2. (TypeOK /\ LoopInv) /\ (TypeOK /\ LoopInv)' /\ BatchInv /\ [Next]_vars => BatchInv'
  BY NextBatch
<1>3. TypeOK /\ BatchInv => BatchBounded
  <2> SUFFICES ASSUME TypeOK, BatchInv, pc \in { "pull", "slot" }
               PROVE  Cardinality(batch) <= BatchSize + Concurrency - 1
    BY DEF BatchBounded
  <2>1. batch \cup Unbuffered \subseteq Emails
    BY DEF TypeOK, Unbuffered
  <2>2. IsFiniteSet(batch \cup Unbuffered)
    BY <2>1, FS_Subset, ConstantsAssumption
  <2>3. /\ Cardinality(batch) \in Nat /\ Cardinality(batch \cup Unbuffered) \in Nat
        /\ Cardinality(batch) <= Cardinality(batch \cup Unbuffered)
    BY <2>2, CardinalityMonotone
  <2>4. Cardinality(batch \cup Unbuffered) <= (BatchSize + Concurrency) - 1
    BY <1>0, <2>3 DEF BatchInv
  <2> QED
    BY <1>0, <2>3, <2>4
<1> QED
  BY <1>1, <1>2, <1>3, LoopCorrect, PTL DEF Spec
=============================================================================
