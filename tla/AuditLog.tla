------------------------------ MODULE AuditLog ------------------------------
(***************************************************************************)
(* The chained audit log (AuditService): requests and jobs append beside   *)
(* each other, one verification at a time reads the chain back in pages,   *)
(* and somebody may alter the table behind the program's back.             *)
(***************************************************************************)
EXTENDS Naturals, Sequences

CONSTANTS
    Writers,        \* whoever calls createAuditLog
    Payloads,       \* what an entry says: actor, action, target, details, time
    NoHash,         \* the predecessor of the first entry: null
    ChunkSize,      \* rows on a page of the verification
    MaxEntries      \* bound: entries written

VARIABLES
    log,        \* the rows of audit_logs, by id
    writer,     \* [Writers -> where createAuditLog is]
    verifier,   \* verifyAuditLog
    altered     \* history: the table was altered from outside

vars == << log, writer, verifier, altered >>

\* calculateHash: two entries have one hash only if they are equal.
Digest(payload, previous) == << payload, previous >>

\* No entry's hash is null.
AuditAssumption ==
    /\ ChunkSize \in Nat \ {0}
    /\ MaxEntries \in Nat
    /\ \A payload \in Payloads : Digest(payload, NoHash) # NoHash

Entry(payload, previous) ==
    [ payload |-> payload, previousHash |-> previous, currentHash |-> Digest(payload, previous) ]

WriterAt(pc, payload, previous) == [ pc |-> pc, payload |-> payload, previousHash |-> previous ]
IdleWriter == WriterAt("idle", NoHash, NoHash)

\* The outcome of the last verification, and whether every page before its last
\* one was full.
IdleVerifier(outcome, pages) ==
    [ pc |-> "idle", offset |-> 0, previousHash |-> NoHash, pages |-> pages, outcome |-> outcome ]

Init ==
    /\ log = << >>
    /\ writer = [ w \in Writers |-> IdleWriter ]
    /\ verifier = IdleVerifier("none", "full")
    /\ altered = FALSE

-----------------------------------------------------------------------------
(* createAuditLog                                                          *)

\* The lock is exclusive among writers; readers are not kept out.
Locked == \E w \in Writers : writer[w].pc \in { "locked", "read" }

Begin(w, payload) ==
    /\ writer[w].pc = "idle" /\ Len(log) < MaxEntries
    /\ writer' = [ writer EXCEPT ![w] = WriterAt("waiting", payload, NoHash) ]
    /\ UNCHANGED << log, verifier, altered >>

\* A fault: the table is not locked.
Lock_Fault(w) ==
    /\ writer[w].pc = "waiting"
    /\ writer' = [ writer EXCEPT ![w] = WriterAt("locked", @.payload, NoHash) ]
    /\ UNCHANGED << log, verifier, altered >>

Lock(w) ==
    /\ writer[w].pc = "waiting" /\ ~ Locked
    /\ writer' = [ writer EXCEPT ![w] = WriterAt("locked", @.payload, NoHash) ]
    /\ UNCHANGED << log, verifier, altered >>

LatestHash == IF log = << >> THEN NoHash ELSE log[Len(log)].currentHash

GetLatestHash(w) ==
    /\ writer[w].pc = "locked"
    /\ writer' = [ writer EXCEPT ![w] = WriterAt("read", @.payload, LatestHash) ]
    /\ UNCHANGED << log, verifier, altered >>

\* The insert and the end of the transaction, which gives the lock back.
Commit(w) ==
    /\ writer[w].pc = "read"
    /\ log' = Append(log, Entry(writer[w].payload, writer[w].previousHash))
    /\ writer' = [ writer EXCEPT ![w] = IdleWriter ]
    /\ UNCHANGED << verifier, altered >>

\* The transaction is rolled back: the database or the process is gone.
Abort(w) ==
    /\ writer[w].pc # "idle"
    /\ writer' = [ writer EXCEPT ![w] = IdleWriter ]
    /\ UNCHANGED << log, verifier, altered >>

-----------------------------------------------------------------------------
(* verifyAuditLog                                                          *)

StartVerification ==
    /\ verifier.pc = "idle"
    /\ verifier' = [ IdleVerifier("none", "full") EXCEPT !.pc = "page" ]
    /\ UNCHANGED << log, writer, altered >>

Page == SubSeq(log, verifier.offset + 1,
               IF verifier.offset + ChunkSize <= Len(log) THEN verifier.offset + ChunkSize ELSE Len(log))

Predecessor(page, i) == IF i = 1 THEN verifier.previousHash ELSE page[i - 1].currentHash

\* A fault: the hash of an entry is not calculated again.
Verifies_Fault(page, i) == page[i].previousHash = Predecessor(page, i)

Verifies(page, i) ==
    /\ page[i].previousHash = Predecessor(page, i)
    /\ page[i].currentHash = Digest(page[i].payload, page[i].previousHash)

\* A page is read and looked at in one go.
PageVerifies ==
    /\ verifier.pc = "page"
    /\ Page # << >> /\ \A i \in DOMAIN Page : Verifies(Page, i)
    /\ verifier' = [ verifier EXCEPT !.offset = @ + ChunkSize,
                                     !.previousHash = Page[Len(Page)].currentHash,
                                     !.pages = IF Len(Page) < ChunkSize THEN "short" ELSE @ ]
    /\ UNCHANGED << log, writer, altered >>

PageIsBroken ==
    /\ verifier.pc = "page"
    /\ \E i \in DOMAIN Page : ~ Verifies(Page, i)
    /\ verifier' = IdleVerifier("broken", verifier.pages)
    /\ UNCHANGED << log, writer, altered >>

\* Only an empty page ends the walk.
LogVerified ==
    /\ verifier.pc = "page" /\ Page = << >>
    /\ verifier' = IdleVerifier("ok", verifier.pages)
    /\ UNCHANGED << log, writer, altered >>

-----------------------------------------------------------------------------
(* The table is altered from outside; bound: once, and between two verifications. *)

Alter(i, payload) ==
    /\ ~ altered /\ verifier.pc = "idle" /\ payload # log[i].payload
    /\ log' = [ log EXCEPT ![i].payload = payload ]
    /\ altered' = TRUE
    /\ verifier' = IdleVerifier("none", "full")
    /\ UNCHANGED writer

\* The end of a chain can be cut off unseen: another entry must follow.
Delete(i) ==
    /\ ~ altered /\ verifier.pc = "idle" /\ i < Len(log)
    /\ log' = SubSeq(log, 1, i - 1) \o SubSeq(log, i + 1, Len(log))
    /\ altered' = TRUE
    /\ verifier' = IdleVerifier("none", "full")
    /\ UNCHANGED writer

-----------------------------------------------------------------------------
CreateAuditLog(w) ==
    \/ \E payload \in Payloads : Begin(w, payload)
    \/ Lock(w) \/ GetLatestHash(w) \/ Commit(w) \/ Abort(w)

Verify == StartVerification \/ PageVerifies \/ PageIsBroken \/ LogVerified

Outside == \E i \in DOMAIN log : Delete(i) \/ \E payload \in Payloads : Alter(i, payload)

Next == (\E w \in Writers : CreateAuditLog(w)) \/ Verify \/ Outside

Spec == Init /\ [][Next]_vars

-----------------------------------------------------------------------------
\* Every entry names the hash of the one before it and carries its own: however
\* many writers append at the same time, and whoever of them fails, the log that
\* nobody altered is one chain.
OneChain ==
    ~ altered =>
        \A i \in DOMAIN log :
            /\ log[i].previousHash = IF i = 1 THEN NoHash ELSE log[i - 1].currentHash
            /\ log[i].currentHash = Digest(log[i].payload, log[i].previousHash)

\* A verification that succeeds met no altered entry and no gap, wherever the
\* pages ended and whatever was appended meanwhile; one that fails did, unless it
\* walked on behind a page that was not full.
OkMeansWhole == verifier.outcome = "ok" => ~ altered
BrokenIsExplained == verifier.outcome = "broken" => altered \/ verifier.pages = "short"
VerdictIsTrue == OkMeansWhole /\ BrokenIsExplained

\* "This indicates that one or more log entries may have been deleted or
\* inserted into the chain": a failure tells of an altered table.
BrokenMeansAltered == verifier.outcome = "broken" => altered
=============================================================================
