----------------------------- MODULE ImapSync ------------------------------
(***************************************************************************)
(* One IMAP account (ImapConnector) over its sync cycles: the highest UID  *)
(* seen per folder, windows of UIDs whose envelopes are listed before any  *)
(* message is fetched, and a folder whose trouble ends that folder only.   *)
(* UIDVALIDITY is not looked at by the code and does not change here.      *)
(***************************************************************************)
EXTENDS Naturals, FiniteSets

CONSTANTS
    Messages, Folders,  \* Folders: those that pass the junk and drafts filter
    Nowhere,            \* where a message is that is in no such folder
    Excused,            \* flagged as drafts, or without an envelope
    BatchSize,          \* UIDs in a window (BATCH_SIZE)
    MaxUid,             \* bound: UIDs a folder gives out
    Env,                \* what may go wrong: listing or opening folders, a
                        \* fetch or an insert that fails for good, a dead worker
    Budget              \* bound: how often it goes wrong in a behaviour

ImapAssumption ==
    /\ Nowhere \notin Folders /\ Excused \subseteq Messages
    /\ BatchSize \in Nat \ {0} /\ MaxUid \in Nat /\ Budget \in Nat

VARIABLES
    mail,       \* the account on the server
    archived,   \* the messages the archive holds
    stored,     \* syncState.imap[folder].maxUid, 0 when there is none
    pc,         \* where the run is
    run,        \* the connector of the run
    skipped,    \* messages listed in a folder that failed before they came (history)
    faults      \* how often the environment struck

vars == << mail, archived, stored, pc, run, skipped, faults >>

Uids == 0 .. MaxUid

Mailbox ==
    [ loc : [Messages -> Folders \cup {Nowhere}],
      uid : [Messages -> Uids],         \* in its folder
      top : [Folders -> Uids] ]         \* the last UID the folder gave out

Run ==
    [ newMax : [Folders -> Uids],       \* newMaxUids, stored for unopened folders
      folders : SUBSET Folders,         \* folders still to be opened
      folder : Folders,                 \* the folder at hand
      start : 1 .. MaxUid + BatchSize,  \* startUid
      upto : Uids,                      \* maxUidToFetch
      todo : SUBSET Messages,           \* uidsToFetch
      failed : BOOLEAN ]                \* a message failed in the archive

TypeOK ==
    /\ mail \in Mailbox /\ run \in Run
    /\ archived \subseteq Messages \ Excused
    /\ stored \in [Folders -> Uids]
    /\ pc \in { "idle", "list", "folders", "batch", "fetch", "finish" }
    /\ skipped \subseteq Messages
    /\ faults \in 0 .. Budget

NewRun(max) ==
    [ newMax |-> max, folders |-> Folders, folder |-> CHOOSE f \in Folders : TRUE,
      start |-> 1, upto |-> 0, todo |-> {}, failed |-> FALSE ]

\* Between two cycles.
NoRun == NewRun([f \in Folders |-> 0])

Init ==
    /\ mail = [ loc |-> [m \in Messages |-> Nowhere], uid |-> [m \in Messages |-> 0],
                top |-> [f \in Folders |-> 0] ]
    /\ archived = {} /\ stored = [f \in Folders |-> 0]
    /\ pc = "idle" /\ run = NoRun
    /\ skipped = {} /\ faults = 0

Strikes(kind) == kind \in Env /\ faults < Budget /\ faults' = faults + 1

-----------------------------------------------------------------------------
(* The account                                                             *)

\* A message that never was in the account arrives, or another one is moved:
\* either way the folder gives it a new UID.
Deliver(m, f) ==
    /\ mail.top[f] < MaxUid
    /\ IF mail.loc[m] = Nowhere THEN mail.uid[m] = 0 ELSE mail.loc[m] # f
    /\ mail' = [ mail EXCEPT !.top[f] = @ + 1, !.loc[m] = f, !.uid[m] = mail.top[f] + 1 ]
    /\ UNCHANGED << archived, stored, pc, run, skipped, faults >>

Vanish(m) ==
    /\ mail.loc[m] # Nowhere
    /\ mail' = [ mail EXCEPT !.loc[m] = Nowhere ]
    /\ UNCHANGED << archived, stored, pc, run, skipped, faults >>

There == { m \in Messages : mail.loc[m] # Nowhere }
In(f) == { m \in Messages : mail.loc[m] = f }

-----------------------------------------------------------------------------
(* fetchEmails                                                             *)

\* The larger of a UID and the largest UID of some messages.
Highest(low, S) ==
    CHOOSE u \in {low} \cup { mail.uid[m] : m \in S } :
        u >= low /\ \A m \in S : mail.uid[m] <= u

Start ==
    /\ pc = "idle"
    /\ run' = NewRun(stored)
    /\ pc' = "list"
    /\ UNCHANGED << mail, archived, stored, skipped, faults >>

ListFolders ==
    /\ pc = "list"
    /\ pc' = "folders"
    /\ UNCHANGED << mail, archived, stored, run, skipped, faults >>

\* The run ends without a report of its sync state.
Abort == pc' = "idle" /\ run' = NoRun /\ UNCHANGED << mail, archived, stored, skipped >>

ListFails == pc = "list" /\ Strikes("listFail") /\ Abort

\* The folder's last message bounds what this run looks at.
OpenFolder(f) ==
    /\ pc = "folders" /\ f \in run.folders
    /\ run' = [ run EXCEPT !.folders = @ \ {f}, !.folder = f, !.start = stored[f] + 1,
                           !.upto = Highest(stored[f], In(f)) ]
    /\ pc' = "batch"
    /\ UNCHANGED << mail, archived, stored, skipped, faults >>

WindowEnd == LET e == run.start + BatchSize - 1 IN IF e < run.upto THEN e ELSE run.upto

\* The window's messages up to some UID.
Listed(upto) == { m \in In(run.folder) : run.start <= mail.uid[m] /\ mail.uid[m] <= upto }

\* Pass 1: envelopes of a window of UIDs.  Drafts and known messages are left
\* out; the highest UID counts all the same, and before anything is fetched.
Envelopes ==
    /\ pc = "batch" /\ run.start <= run.upto
    /\ run' = [ run EXCEPT !.newMax[run.folder] = Highest(@, Listed(WindowEnd)),
                           !.todo = Listed(WindowEnd) \ (Excused \cup archived) ]
    /\ pc' = "fetch"
    /\ UNCHANGED << mail, archived, stored, skipped, faults >>

\* Pass 2 is through with the window.
WindowDone ==
    /\ pc = "fetch" /\ run.todo = {}
    /\ run' = [ run EXCEPT !.start = WindowEnd + 1 ]
    /\ pc' = "batch"
    /\ UNCHANGED << mail, archived, stored, skipped, faults >>

FolderDone ==
    /\ pc = "batch" /\ run.start > run.upto
    /\ pc' = "folders"
    /\ UNCHANGED << mail, archived, stored, run, skipped, faults >>

\* The folder's catch block: the rest of the folder is left, and nothing is held
\* against the run.  A folder that does not open keeps its stored UID.
FolderShut(f) ==
    /\ pc = "folders" /\ f \in run.folders /\ Strikes("openFail")
    /\ run' = [ run EXCEPT !.folders = @ \ {f} ]
    /\ UNCHANGED << mail, archived, stored, pc, skipped >>

\* The envelopes stop coming, or a lookup of a message fails, behind the UIDs
\* that were listed until then.
EnvelopesFail(upto) ==
    /\ pc = "batch" /\ run.start <= run.upto
    /\ run.start <= upto /\ upto <= WindowEnd /\ Strikes("fetchFail")
    /\ run' = [ run EXCEPT !.newMax[run.folder] = Highest(@, Listed(upto)) ]
    /\ skipped' = skipped \cup (Listed(upto) \ (Excused \cup archived))
    /\ pc' = "folders"
    /\ UNCHANGED << mail, archived, stored >>

\* A message does not come, behind the UIDs of its whole window.
FetchFails ==
    /\ pc = "fetch" /\ run.todo # {} /\ Strikes("fetchFail")
    /\ run' = [ run EXCEPT !.todo = {} ]
    /\ skipped' = skipped \cup run.todo
    /\ pc' = "folders"
    /\ UNCHANGED << mail, archived, stored >>

FolderFails ==
    (\E f \in Folders : FolderShut(f)) \/ (\E upto \in Uids : EnvelopesFail(upto)) \/ FetchFails

-----------------------------------------------------------------------------
(* Pass 2, and processEmail for what it yields                             *)

Handle(m, failed) ==
    /\ pc = "fetch" /\ m \in run.todo
    /\ run' = [ run EXCEPT !.todo = @ \ {m}, !.failed = failed ]

\* Still in the folder that was opened, under the UID that was listed.
Fetchable(m) == m \in In(run.folder) \ archived /\ mail.uid[m] <= WindowEnd

\* The server no longer has the UID, or the archive has the message by now.
Skip(m) ==
    /\ ~ Fetchable(m)
    /\ Handle(m, run.failed)
    /\ UNCHANGED << mail, archived, stored, pc, skipped, faults >>

Archive(m) ==
    /\ Fetchable(m)
    /\ Handle(m, run.failed)
    /\ archived' = archived \cup {m}
    /\ UNCHANGED << mail, stored, pc, skipped, faults >>

ArchiveFails(m) ==
    /\ Fetchable(m)
    /\ Strikes("archiveFail")
    /\ Handle(m, TRUE)
    /\ UNCHANGED << mail, archived, stored, pc, skipped >>

NoFolderLeft ==
    /\ pc = "folders" /\ run.folders = {}
    /\ pc' = "finish"
    /\ UNCHANGED << mail, archived, stored, run, skipped, faults >>

\* process-mailbox stores the UIDs of a run in which nothing failed.
Finish ==
    /\ pc = "finish"
    /\ stored' = IF run.failed THEN stored ELSE run.newMax
    /\ pc' = "idle" /\ run' = NoRun
    /\ UNCHANGED << mail, archived, skipped, faults >>

Crash == pc # "idle" /\ Strikes("crash") /\ Abort

-----------------------------------------------------------------------------
MessageStep(m) == Skip(m) \/ Archive(m) \/ ArchiveFails(m)

RunStep ==
    \/ Start \/ ListFolders \/ ListFails
    \/ (\E f \in Folders : OpenFolder(f)) \/ NoFolderLeft
    \/ Envelopes \/ WindowDone \/ FolderDone \/ FolderFails
    \/ (\E m \in Messages : MessageStep(m))
    \/ Finish

Next ==
    \/ RunStep
    \/ (\E m \in Messages : Vanish(m) \/ \E f \in Folders : Deliver(m, f))
    \/ Crash

Spec == Init /\ [][Next]_vars

\* The messages the stored UIDs will not list again.
Passed == { m \in There : mail.uid[m] <= stored[mail.loc[m]] }
=============================================================================
