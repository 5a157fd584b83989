-------------------------- MODULE WorkspaceSearch ---------------------------
(***************************************************************************)
(* Workspace with the two sides of the search beside its own.  The search  *)
(* page, from its form to the query and back.  The field that collects its *)
(* values.                                                                 *)
(***************************************************************************)
EXTENDS Workspace

CONSTANTS
    Emails, RootOf, Limit, MaxTotalHits, Entered, Typed, Accesses, MaxEdits,
    Texts, Pasted, Answers, MaxRequests

VARIABLES
    access, form, url, view, asked, edits,                      \* of the search page
    mode, values, draft, list, timer, inFlight, requestSeq, closing, latest \* of the field

searchVars == << access, form, url, view, asked, edits >>
fieldVars == << mode, values, draft, list, timer, inFlight, requestSeq, closing, latest >>
allVars == << vars, searchVars, fieldVars >>

Searching == INSTANCE SearchPage
Field == INSTANCE ChipInput

ASSUME SearchSidesAssumption ==
    Searching!SearchAssumption /\ Field!ChipAssumption

\* The state of the sides that are not looked at.
NoSearching == access = 0 /\ form = 0 /\ url = 0 /\ view = 0 /\ asked = 0 /\ edits = 0
NoField ==
    /\ mode = 0 /\ values = 0 /\ draft = 0 /\ list = 0 /\ timer = 0
    /\ inFlight = 0 /\ requestSeq = 0 /\ closing = 0 /\ latest = 0
NoWorkspace == NoProcesses /\ NoExtraction /\ NoListing /\ NoAccounts /\ NoBrowsing /\ NoReading

SearchInit ==
    /\ \/ Init
       \/ side \in { "search", "field" } /\ NoWorkspace
    /\ IF side = "search" THEN Searching!Init ELSE NoSearching
    /\ IF side = "field" THEN Field!Init ELSE NoField

WorkspaceStep == Next /\ UNCHANGED << searchVars, fieldVars >>

SearchStep ==
    /\ side = "search" /\ Searching!Next
    /\ UNCHANGED << vars, fieldVars >>

FieldStep ==
    /\ side = "field" /\ Field!Next
    /\ UNCHANGED << vars, searchVars >>

SearchNext == WorkspaceStep \/ SearchStep \/ FieldStep

SearchSpec == SearchInit /\ [][SearchNext]_allVars

-----------------------------------------------------------------------------
\* The page shows exactly what its form asks for, as far as the engine returns hits,
\* its address carries the whole search, and little of what the form can hold is
\* refused (SearchPage); the
\* form's chips stand there once and trimmed, and a slow suggestion never
\* replaces a newer one (ChipInput).
SearchIsExact ==
    /\ side = "search" => Searching!ShowsWanted /\ Searching!AddressIsTheSearch /\ Searching!RefusesLittle
    /\ side = "field" => Field!ChipsClean /\ Field!SuggestionsFresh
=============================================================================
