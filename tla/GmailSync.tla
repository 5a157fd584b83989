----------------------------- MODULE GmailSync -----------------------------
(***************************************************************************)
(* One Google Workspace mailbox over its sync cycles: the history marker   *)
(* GoogleWorkspaceConnector keeps, its incremental and full listings, the  *)
(* messages it gives up on, and process-mailbox storing or discarding the  *)
(* run's marker.  Messages are numbered by the history id of their         *)
(* arrival.  An action is one request, or one message fetched and archived *)
(* (MailboxJob takes the archiving apart).                                 *)
(***************************************************************************)
EXTENDS Naturals, FiniteSets

CONSTANTS
    Messages,       \* 1 .. n, in the order in which they arrive
    Excused,        \* those Gmail has no raw content for
    PageSize,       \* messages on a page of a listing
    MaxConsecutive, \* MessageFailureTally.MAX_CONSECUTIVE_FAILURES
    Env,            \* what may go wrong: a listing, a fetch or an insert that
                    \* fails for good, a dead worker, history no longer kept
    Budget          \* bound: how often it goes wrong in a behaviour

GmailAssumption ==
    /\ IsFiniteSet(Messages) /\ Messages = 1 .. Cardinality(Messages)
    /\ Excused \subseteq Messages
    /\ PageSize \in Nat \ {0} /\ MaxConsecutive \in Nat \ {0} /\ Budget \in Nat

VARIABLES
    mail,       \* the mailbox at Gmail
    archived,   \* the messages the archive holds
    stored,     \* syncState.google[user].historyId, 0 when there is none
    pc,         \* where the run is
    run,        \* the connector of the run
    faults      \* how often the environment struck

vars == << mail, archived, stored, pc, run, faults >>

HistoryIds == 0 .. Cardinality(Messages)

Mailbox ==
    [ arrived : HistoryIds,         \* its history id
      there : SUBSET Messages,
      horizon : HistoryIds ]        \* history up to this id is no longer kept

Run ==
    [ marker : HistoryIds,          \* newHistoryId
      full : BOOLEAN,               \* it lists the whole mailbox
      paged : BOOLEAN,              \* it has seen the first page of its listing
      unlisted : SUBSET Messages,   \* what further pages of the listing will hold
      todo : SUBSET Messages,       \* messages of the page at hand to look at
      streak : 0 .. MaxConsecutive - 1, \* failures in a row (MessageFailureTally)
      failed : BOOLEAN ]            \* some message failed, here or in the archive

TypeOK ==
    /\ mail \in Mailbox /\ run \in Run
    /\ mail.there \subseteq 1 .. mail.arrived
    /\ archived \subseteq Messages \ Excused
    /\ stored \in 0 .. mail.arrived /\ run.marker \in 0 .. mail.arrived
    /\ pc \in { "idle", "profile", "list", "messages", "finish" }
    /\ faults \in 0 .. Budget

NewRun(from) ==
    [ marker |-> from, full |-> from = 0, paged |-> FALSE, unlisted |-> {}, todo |-> {},
      streak |-> 0, failed |-> FALSE ]

\* Between two cycles.
NoRun == NewRun(0)

Init ==
    /\ mail = [ arrived |-> 0, there |-> {}, horizon |-> 0 ]
    /\ archived = {} /\ stored = 0
    /\ pc = "idle" /\ run = NoRun
    /\ faults = 0

Strikes(kind) == kind \in Env /\ faults < Budget /\ faults' = faults + 1

-----------------------------------------------------------------------------
(* The mailbox                                                             *)

Arrive ==
    /\ mail.arrived + 1 \in Messages
    /\ mail' = [ mail EXCEPT !.arrived = @ + 1, !.there = @ \cup {mail.arrived + 1} ]
    /\ UNCHANGED << archived, stored, pc, run, faults >>

Vanish(m) ==
    /\ m \in mail.there
    /\ mail' = [ mail EXCEPT !.there = @ \ {m} ]
    /\ UNCHANGED << archived, stored, pc, run, faults >>

\* Gmail keeps history records for a limited window.
Expire ==
    /\ Strikes("expire")
    /\ mail.horizon < mail.arrived
    /\ mail' = [ mail EXCEPT !.horizon = mail.arrived ]
    /\ UNCHANGED << archived, stored, pc, run >>

-----------------------------------------------------------------------------
(* fetchEmails                                                             *)

\* A cycle's job has a connector of its own; it begins at the stored marker, or
\* without one with the whole mailbox.
Start ==
    /\ pc = "idle"
    /\ run' = NewRun(stored)
    /\ pc' = IF stored = 0 THEN "profile" ELSE "list"
    /\ UNCHANGED << mail, archived, stored, faults >>

\* fetchAllMessagesForUser takes the marker before it lists anything.
Profile ==
    /\ pc = "profile"
    /\ run' = [ run EXCEPT !.marker = mail.arrived, !.full = TRUE, !.paged = FALSE ]
    /\ pc' = "list"
    /\ UNCHANGED << mail, archived, stored, faults >>

\* What a listing returns over its pages: what the mailbox holds, or what was
\* added since the marker, as of its first page.  Later arrivals need not show.
Listing ==
    IF run.full THEN mail.there ELSE { m \in Messages : stored < m /\ m <= mail.arrived }

\* The history's first page gives the next marker; later pages report newer ones.
MarkerAfterPage == IF run.full \/ run.paged THEN run.marker ELSE mail.arrived

\* A page may be empty and still carry a token.
ListPage ==
    /\ pc = "list"
    /\ run.full \/ stored >= mail.horizon
    /\ LET rest == IF run.paged THEN run.unlisted ELSE Listing IN
       \E page \in SUBSET rest :
          /\ Cardinality(page) <= PageSize
          /\ page = {} => ~ run.paged \/ rest = {}
          /\ run' = [ run EXCEPT !.todo = page, !.unlisted = rest \ page, !.paged = TRUE,
                                 !.marker = MarkerAfterPage ]
    /\ pc' = "messages"
    /\ UNCHANGED << mail, archived, stored, faults >>

\* 404: the stored marker is older than the history; all messages are listed.
MarkerExpired ==
    /\ pc = "list" /\ ~ run.full /\ stored < mail.horizon
    /\ run' = [ run EXCEPT !.marker = 0 ]
    /\ pc' = "profile"
    /\ UNCHANGED << mail, archived, stored, faults >>

\* The run ends without a report of its sync state.
Abort == pc' = "idle" /\ run' = NoRun /\ UNCHANGED << mail, archived, stored >>

\* getProfile, history.list or messages.list fail beyond their retries.
ListFails == pc \in { "list", "profile" } /\ Strikes("listFail") /\ Abort

-----------------------------------------------------------------------------
(* fetchMessageOrSkip, and processEmail for what it yields                 *)

\* At m, the next message of the page, with what becomes of the failure tally.
Handle(m, streak, failed) ==
    /\ pc = "messages" /\ m \in run.todo
    /\ run' = [ run EXCEPT !.todo = @ \ {m}, !.streak = streak, !.failed = failed ]

Archivable(m) == m \in mail.there \ (archived \cup Excused)

\* The pre-check finds it in the archive.
Duplicate(m) ==
    /\ m \in archived
    /\ Handle(m, run.streak, run.failed)
    /\ UNCHANGED << mail, archived, stored, pc, faults >>

\* 404, or an answer without content: skipped, and not a failure.  A label's
\* 404 is neither: the message is archived without it.
Skip(m) ==
    /\ m \notin archived /\ ~ Archivable(m)
    /\ Handle(m, 0, run.failed)
    /\ UNCHANGED << mail, archived, stored, pc, faults >>

Archive(m) ==
    /\ Archivable(m)
    /\ Handle(m, 0, run.failed)
    /\ archived' = archived \cup {m}
    /\ UNCHANGED << mail, stored, pc, faults >>

ArchiveFails(m) ==
    /\ Archivable(m)
    /\ Strikes("archiveFail")
    /\ Handle(m, 0, TRUE)
    /\ UNCHANGED << mail, archived, stored, pc >>

\* Given up after its retries: counted, and skipped unless failures stop
\* looking isolated.
FetchFails(m) ==
    /\ m \in mail.there \ archived
    /\ Strikes("fetchFail")
    /\ IF run.streak + 1 = MaxConsecutive
       THEN pc = "messages" /\ m \in run.todo /\ pc' = "idle" /\ run' = NoRun
       ELSE pc' = pc /\ Handle(m, run.streak + 1, TRUE)
    /\ UNCHANGED << mail, archived, stored >>

PageDone ==
    /\ pc = "messages" /\ run.todo = {}
    /\ pc' = IF run.unlisted = {} THEN "finish" ELSE "list"
    /\ UNCHANGED << mail, archived, stored, run, faults >>

\* Fault: skipped messages are not held against the run.
KeptMarker_Fault == IF run.marker = 0 THEN stored ELSE run.marker

\* process-mailbox stores the marker of a run in which nothing failed.
KeptMarker == IF run.failed \/ run.marker = 0 THEN stored ELSE run.marker

Finish ==
    /\ pc = "finish"
    /\ stored' = KeptMarker
    /\ pc' = "idle" /\ run' = NoRun
    /\ UNCHANGED << mail, archived, faults >>

Crash == pc # "idle" /\ Strikes("crash") /\ Abort

-----------------------------------------------------------------------------
MessageStep(m) ==
    \/ Duplicate(m) \/ Skip(m) \/ Archive(m) \/ ArchiveFails(m) \/ FetchFails(m)

RunStep ==
    \/ Start \/ Profile \/ ListPage \/ MarkerExpired \/ ListFails
    \/ (\E m \in Messages : MessageStep(m))
    \/ PageDone \/ Finish

Next == RunStep \/ Arrive \/ (\E m \in Messages : Vanish(m)) \/ Expire \/ Crash

Spec == Init /\ [][Next]_vars

There == mail.there

\* The messages the stored marker will not list again.
Passed == { m \in mail.there : m <= stored }
=============================================================================
