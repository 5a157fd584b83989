---------------------------- MODULE Connectors -----------------------------
(***************************************************************************)
(* The connectors of an ingestion source behind the interface they share.  *)
(* EmailProviderFactory makes one by the source's provider.  A connector   *)
(* of a live mailbox keeps the promise of MailboxFeed, whichever the       *)
(* provider; one of an uploaded file reads a working copy of the upload,   *)
(* or cuts a stream.                                                       *)
(***************************************************************************)
EXTENDS Naturals, FiniteSets

CONSTANTS
    Providers, Transports,          \* the sources to look at
    Messages, Folders, Nowhere, Excused, PageSize, MaxConsecutive, MaxEvents, MaxUid,
    MailEnv, ImapEnv,               \* what may go wrong at the live mailboxes
    Imports, Pids, NoPid, Entries, Unreadable, FileEnv,
    Budget,                         \* bound: how often something goes wrong
    Files

VARIABLES
    connector,                          \* the connector the factory made
    mail, archived, stored, pc, run,    \* of a live mailbox
    skipped,                            \* of an IMAP mailbox
    imports, host,                      \* of uploaded files
    split,                              \* of a Mbox stream
    faults

liveVars == << mail, archived, stored, pc, run, skipped >>
fileVars == << imports, host >>
vars == << connector, liveVars, fileVars, split, faults >>

Gmail == INSTANCE GmailSync WITH Env <- MailEnv
Graph == INSTANCE GraphSync WITH Env <- MailEnv
Imap == INSTANCE ImapSync WITH BatchSize <- PageSize, Env <- ImapEnv
Upload == INSTANCE FileImport WITH Env <- FileEnv
Mbox == INSTANCE MboxSplitter

ASSUME ConnectorAssumption ==
    /\ Gmail!GmailAssumption /\ Graph!GraphAssumption /\ Imap!ImapAssumption
    /\ Upload!FileAssumption /\ Mbox!SplitterAssumption

\* createConnector: the archived provider name decides; only a mailbox
\* authorised by OAuth comes with a choice of transport.
CreateConnector(provider, transport) ==
    CASE provider = "google_workspace" -> "gmail"
      [] provider = "microsoft_365" -> "graph"
      [] provider = "generic_imap" -> "imap"
      [] provider = "oauth_mailbox" -> IF transport = "graph" THEN "graph" ELSE "imap"
      [] provider \in { "pst_import", "eml_import" } -> "upload"
      [] provider = "mbox_import" -> "mbox"

\* The state that the source's connector does not use.
Idle == << >>
NoLive ==
    /\ mail = Idle /\ archived = Idle /\ stored = Idle /\ pc = Idle /\ run = Idle
    /\ skipped = Idle
NoFile == imports = Idle /\ host = Idle
NoSplit == split = Idle

Init ==
    /\ \E p \in Providers, t \in Transports : connector = CreateConnector(p, t)
    /\ \/ connector = "gmail" /\ Gmail!Init /\ skipped = Idle /\ NoFile /\ NoSplit
       \/ connector = "graph" /\ Graph!Init /\ skipped = Idle /\ NoFile /\ NoSplit
       \/ connector = "imap" /\ Imap!Init /\ NoFile /\ NoSplit
       \/ connector = "upload" /\ Upload!Init /\ NoLive /\ NoSplit
       \/ connector = "mbox" /\ Mbox!Init /\ NoLive /\ NoFile /\ faults = 0

\* A live mailbox, its provider's side included.
LiveStep ==
    /\ \/ connector = "gmail" /\ Gmail!Next /\ UNCHANGED skipped
       \/ connector = "graph" /\ Graph!Next /\ UNCHANGED skipped
       \/ connector = "imap" /\ Imap!Next
    /\ UNCHANGED << connector, fileVars, split >>

UploadStep ==
    /\ connector = "upload" /\ Upload!Next
    /\ UNCHANGED << connector, liveVars, split >>

MboxStep ==
    /\ connector = "mbox" /\ Mbox!Next
    /\ UNCHANGED << connector, liveVars, fileVars, faults >>

Next == LiveStep \/ UploadStep \/ MboxStep

Spec == Init /\ [][Next]_vars

\* What the worker does for a live mailbox: it runs cycle after cycle.
Work ==
    /\ \/ connector = "gmail" /\ Gmail!RunStep /\ UNCHANGED skipped
       \/ connector = "graph" /\ Graph!RunStep /\ UNCHANGED skipped
       \/ connector = "imap" /\ Imap!RunStep
    /\ UNCHANGED << connector, fileVars, split >>

\* The scheduler starts cycle after cycle, and a started one gets on: every
\* request is answered or fails.
FairSpec == Spec /\ WF_vars(Work)

-----------------------------------------------------------------------------
There ==
    CASE connector = "gmail" -> Gmail!There
      [] connector = "graph" -> Graph!There
      [] connector = "imap" -> Imap!There
      [] OTHER -> {}

Passed ==
    CASE connector = "gmail" -> Gmail!Passed
      [] connector = "graph" -> Graph!Passed
      [] connector = "imap" -> Imap!Passed
      [] OTHER -> {}

Archived == IF connector \in { "gmail", "graph", "imap" } THEN archived ELSE {}

\* What folders of an IMAP account that failed left behind their listed UIDs.
Skipped == IF connector = "imap" THEN skipped ELSE {}

Feed == INSTANCE MailboxFeed
            WITH there <- There, archived <- Archived, passed <- Passed, skipped <- Skipped

\* Whatever fails, expires, moves or is deleted, and wherever a run stops, the
\* sync state that process-mailbox stores moves past a message only when it is
\* in the archive, or an IMAP folder failed when it had listed the message, and
\* what stays in the mailbox and is not passed gets there.
KeepsFeed == Feed!FairSpec

\* No sync state moves past mail that no run has archived: the comment on the
\* counting of failures in process-mailbox promises it of every connector.
NothingLost == Passed \subseteq Archived \cup Excused

\* No sweep removes the working copy an import is reading (FileImport).
CopyKept == connector = "upload" => Upload!CopyKept

\* However a Mbox stream is chunked, its messages come out whole (MboxSplitter).
SplitAgrees == connector = "mbox" => Mbox!SplitAgrees
=============================================================================
