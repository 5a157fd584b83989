----------------------------- MODULE Workspace ------------------------------
(***************************************************************************)
(* What works beside the archive itself, seen from six sides that share    *)
(* no state.  The worker and scheduler processes under their supervision.  *)
(* The texts of attachments on their way into the index.  The page of the  *)
(* ingestion sources and their merge groups.  The accounts and their page. *)
(* The list of archived messages and the page of one.  WorkspaceSearch     *)
(* adds the sides of the search.                                           *)
(***************************************************************************)
EXTENDS Naturals

CONSTANTS
    Attachments, ReadConcurrency, HeapLimit, HeapBudget, HardStop, MaxResident,
    Workers, Schedulers, Names, Patterns, Pattern, MaxFaults,
    Ids, FileBased, None, MaxPending, MaxSent,
    Users, Administrator, Holder, Pages, Roles, SuperAdmin, UserEmails, Lower, MaxCalls, MaxFailures,
    Messages, Visible, PageSize, MaxDeeds,
    Mails, Readers, MaxSteps, Nobody

VARIABLES
    side,                                                       \* the side looked at
    proc, registering, registered, beats, redis, stop, excused, faults, \* of the processes
    engine, part, built, chain, turn, parsers, heap,            \* of the extraction
    rows, page, pending, unused, sent, slips,                   \* of the page of sources
    people, roles, lists, calls, used, failures, trail, disturbed, \* of the accounts
    archive, held, shown, selected, bulk, moving, deeds, lost,  \* of the list of messages
    stored, taken, onHold, keyed, screen, loading, parses, drawn, deleting, goner, steps, overtaken \* of one

processVars == << proc, registering, registered, beats, redis, stop, excused, faults >>
extractionVars == << engine, part, built, chain, turn, parsers, heap >>
sourceVars == << rows, page, pending, unused, sent, slips >>
userVars == << people, roles, lists, calls, used, failures, trail, disturbed >>
listVars == << archive, held, shown, selected, bulk, moving, deeds, lost >>
viewVars == << stored, taken, onHold, keyed, screen, loading, parses, drawn, deleting, goner, steps, overtaken >>
vars == << side, processVars, extractionVars, sourceVars, userVars, listVars, viewVars >>

Processes == INSTANCE Supervision WITH Budget <- MaxFaults
Extraction == INSTANCE TextExtraction
Listing == INSTANCE SourcesPage
Accounts == INSTANCE Users
Browsing == INSTANCE MessageList
Reading == INSTANCE MessageView

ASSUME WorkspaceAssumption ==
    /\ Processes!SupervisionAssumption /\ Extraction!ExtractionAssumption
    /\ Listing!PageAssumption /\ Accounts!UsersAssumption
    /\ Browsing!ListAssumption /\ Reading!ViewAssumption

\* The state of the sides that are not looked at.
NoProcesses ==
    /\ proc = 0 /\ registering = 0 /\ registered = 0 /\ beats = 0
    /\ redis = 0 /\ stop = 0 /\ excused = 0 /\ faults = 0
NoExtraction == engine = 0 /\ part = 0 /\ built = 0 /\ chain = 0 /\ turn = 0 /\ parsers = 0 /\ heap = 0
NoListing == rows = 0 /\ page = 0 /\ pending = 0 /\ unused = 0 /\ sent = 0 /\ slips = 0
NoAccounts ==
    /\ people = 0 /\ roles = 0 /\ lists = 0 /\ calls = 0
    /\ used = 0 /\ failures = 0 /\ trail = 0 /\ disturbed = 0
NoBrowsing ==
    /\ archive = 0 /\ held = 0 /\ shown = 0 /\ selected = 0
    /\ bulk = 0 /\ moving = 0 /\ deeds = 0 /\ lost = 0
NoReading ==
    /\ stored = 0 /\ taken = 0 /\ onHold = 0 /\ keyed = 0 /\ screen = 0 /\ loading = 0 /\ parses = 0
    /\ drawn = 0 /\ deleting = 0 /\ goner = 0 /\ steps = 0 /\ overtaken = 0

Init ==
    /\ side \in { "processes", "extraction", "sources", "accounts", "messages", "message" }
    /\ IF side = "processes" THEN Processes!Init ELSE NoProcesses
    /\ IF side = "extraction" THEN Extraction!Init ELSE NoExtraction
    /\ IF side = "sources" THEN Listing!Init ELSE NoListing
    /\ IF side = "accounts" THEN Accounts!Init ELSE NoAccounts
    /\ IF side = "messages" THEN Browsing!Init ELSE NoBrowsing
    /\ IF side = "message" THEN Reading!Init ELSE NoReading

ProcessStep ==
    /\ side = "processes" /\ Processes!Next
    /\ UNCHANGED << side, extractionVars, sourceVars, userVars, listVars, viewVars >>

ExtractionStep ==
    /\ side = "extraction" /\ Extraction!Next
    /\ UNCHANGED << side, processVars, sourceVars, userVars, listVars, viewVars >>

SourceStep ==
    /\ side = "sources" /\ Listing!Next
    /\ UNCHANGED << side, processVars, extractionVars, userVars, listVars, viewVars >>

UserStep ==
    /\ side = "accounts" /\ Accounts!Next
    /\ UNCHANGED << side, processVars, extractionVars, sourceVars, listVars, viewVars >>

BrowseStep ==
    /\ side = "messages" /\ Browsing!Next
    /\ UNCHANGED << side, processVars, extractionVars, sourceVars, userVars, viewVars >>

ReadStep ==
    /\ side = "message" /\ Reading!Next
    /\ UNCHANGED << side, processVars, extractionVars, sourceVars, userVars, listVars >>

Next == ProcessStep \/ ExtractionStep \/ SourceStep \/ UserStep \/ BrowseStep \/ ReadStep

Spec == Init /\ [][Next]_vars

-----------------------------------------------------------------------------
\* Only a signal ends a process for good, and ends every one; the API takes a
\* worker for alive just while it runs; and schedulers that start side by side
\* leave one registration of each repeatable job, with its pattern (Supervision).
ProcessesHold ==
    side = "processes" =>
        Processes!StopsForGood /\ Processes!HeartbeatTells /\ Processes!OneRegistration

\* However PDFs behave, one is parsed at a time, the worker does not run out of
\* memory, and the watch gives up a healthy one only when the worker holds something
\* else or a collection failed (the timer gives up any that is slow);
\* a document has the text of every attachment that could be read, whatever
\* happens to the others (TextExtraction).
ExtractionHolds ==
    side = "extraction" =>
        /\ Extraction!OneParse /\ Extraction!HeapHolds /\ Extraction!HealthyParsed
        /\ Extraction!DocumentsWhole

\* Merge groups stay flat, and the page that patches its own list shows what
\* the server has when its requests are answered (SourcesPage).
PageMirrors == side = "sources" => Listing!GroupsFlat /\ Listing!PageMirrors

\* Accounts never run out, have one role, an address of their own and a log that
\* leads to it, and stand on the page as in the table (Users).
AccountsHold ==
    side = "accounts" =>
        /\ Accounts!SomeoneRemains /\ Accounts!OneRoleEach /\ Accounts!TrailLeadsThere
        /\ Accounts!TakenOnce /\ Accounts!ListMirrors

\* From the list just what was confirmed is deleted, what stays selected exists
\* and lies in one merge group (MessageList).  A message's page shows its own
\* preview, its report tells which files are those archived, what it offers is
\* served, and its deletion leads back to its mailbox (MessageView).
MessagesHold ==
    /\ side = "messages" => Browsing!DeletesChosen /\ Browsing!SelectionStands /\ Browsing!WithinGroup
    /\ side = "message" =>
        /\ Reading!PreviewIsTheMessage /\ Reading!ReportTells
        /\ Reading!OfferedIsServed /\ Reading!ReturnsToMailbox
=============================================================================
