----------------------------- MODULE GraphSync -----------------------------
(***************************************************************************)
(* One mailbox read over Microsoft Graph (MicrosoftConnector, and          *)
(* GraphMailboxConnector which inherits its sync) over its sync cycles: a  *)
(* delta token per folder, expired tokens, folders abandoned halfway, and  *)
(* messages that move between folders while they are listed.  Ids are      *)
(* immutable, so a message can be fetched wherever it has moved to.        *)
(***************************************************************************)
EXTENDS Naturals, FiniteSets

CONSTANTS
    Messages, Folders,
    Nowhere,        \* where a message is that is in no folder
    Excused,        \* drafts: fetched, and dropped by process-mailbox
    PageSize,       \* messages on a page of a delta query
    MaxConsecutive, \* MessageFailureTally.MAX_CONSECUTIVE_FAILURES
    Env,            \* what may go wrong: a listing, a fetch or an insert that
                    \* fails for good, a dead worker, tokens no longer accepted
    MaxEvents       \* bound: changes to the mailbox, and how often it goes wrong

GraphAssumption ==
    /\ Nowhere \notin Folders /\ Excused \subseteq Messages
    /\ PageSize \in Nat \ {0} /\ MaxConsecutive \in Nat \ {0}
    /\ MaxEvents \in Nat

VARIABLES
    mail,       \* the mailbox at Graph
    archived,   \* the messages the archive holds
    stored,     \* syncState.microsoft[user].deltaTokens
    pc,         \* where the run is
    run,        \* the connector of the run
    faults      \* how often the environment struck

vars == << mail, archived, stored, pc, run, faults >>

\* A token is issued at a time and lists what changed then or later; 0 is no
\* token, and lists the whole folder.
Tokens == 0 .. MaxEvents + 1

Mailbox ==
    [ loc : [Messages -> Folders \cup {Nowhere}],
      at : [Messages -> 0 .. MaxEvents],     \* when it came to its folder
      clock : 0 .. MaxEvents,
      horizon : Tokens ]                    \* tokens up to this one are refused

Run ==
    [ tokens : [Folders -> Tokens],         \* newDeltaTokens
      folders : SUBSET Folders,             \* folders still to be listed
      folder : Folders,                     \* the folder at hand
      resynced : BOOLEAN,                   \* hasResynced
      paged : BOOLEAN,                      \* it has seen its first page
      token : Tokens,                       \* what its last page will carry
      unlisted : SUBSET Messages,           \* what further pages will hold
      todo : SUBSET Messages,               \* messages of the page at hand
      streak : 0 .. MaxConsecutive - 1,     \* failures in a row
      failed : BOOLEAN ]                    \* something failed in this run

TypeOK ==
    /\ mail \in Mailbox /\ run \in Run
    /\ archived \subseteq Messages \ Excused
    /\ stored \in [Folders -> Tokens]
    /\ pc \in { "idle", "folders", "delta", "messages", "finish" }
    /\ faults \in 0 .. MaxEvents

NewRun(tokens) ==
    [ tokens |-> tokens, folders |-> Folders, folder |-> CHOOSE f \in Folders : TRUE,
      resynced |-> FALSE, paged |-> FALSE, token |-> 0, unlisted |-> {}, todo |-> {},
      streak |-> 0, failed |-> FALSE ]

\* Between two cycles.
NoRun == NewRun([f \in Folders |-> 0])

Init ==
    /\ mail = [ loc |-> [m \in Messages |-> Nowhere], at |-> [m \in Messages |-> 0],
                clock |-> 0, horizon |-> 0 ]
    /\ archived = {} /\ stored = [f \in Folders |-> 0]
    /\ pc = "idle" /\ run = NoRun
    /\ faults = 0

Room == mail.clock + faults < MaxEvents
Strikes(kind) == kind \in Env /\ Room /\ faults' = faults + 1

-----------------------------------------------------------------------------
(* The mailbox                                                             *)

\* A message that never was in the mailbox arrives, or another one is moved.
Deliver(m, f) ==
    /\ Room
    /\ IF mail.loc[m] = Nowhere THEN mail.at[m] = 0 ELSE mail.loc[m] # f
    /\ mail' = [ mail EXCEPT !.clock = @ + 1, !.loc[m] = f, !.at[m] = mail.clock + 1 ]
    /\ UNCHANGED << archived, stored, pc, run, faults >>

Vanish(m) ==
    /\ Room /\ mail.loc[m] # Nowhere
    /\ mail' = [ mail EXCEPT !.clock = @ + 1, !.loc[m] = Nowhere ]
    /\ UNCHANGED << archived, stored, pc, run, faults >>

\* Graph forgets the tokens it has issued so far.
Expire ==
    /\ Strikes("expire")
    /\ mail' = [ mail EXCEPT !.clock = @ + 1, !.horizon = mail.clock + 1 ]
    /\ UNCHANGED << archived, stored, pc, run >>

There == { m \in Messages : mail.loc[m] # Nowhere }

-----------------------------------------------------------------------------
(* fetchEmails and listAllFolders                                          *)

Start ==
    /\ pc = "idle"
    /\ run' = NewRun(stored)
    /\ pc' = "folders"
    /\ UNCHANGED << mail, archived, stored, faults >>

NextFolder(f) ==
    /\ pc = "folders" /\ f \in run.folders
    /\ run' = [ run EXCEPT !.folders = @ \ {f}, !.folder = f, !.resynced = FALSE,
                           !.paged = FALSE, !.token = 0, !.unlisted = {} ]
    /\ pc' = "delta"
    /\ UNCHANGED << mail, archived, stored, faults >>

NoFolderLeft ==
    /\ pc = "folders" /\ run.folders = {}
    /\ pc' = "finish"
    /\ UNCHANGED << mail, archived, stored, run, faults >>

\* The run ends without a report of its sync state.
Abort == pc' = "idle" /\ run' = NoRun /\ UNCHANGED << mail, archived, stored >>

\* Unlike a folder's delta query, the list of folders must not fail.
FoldersFail == pc = "folders" /\ Strikes("listFail") /\ Abort

-----------------------------------------------------------------------------
(* syncFolder                                                              *)

\* The token the next request carries: the stored one, or that of the round.
Sent == IF run.paged THEN run.token ELSE run.tokens[run.folder]
Refused == Sent # 0 /\ Sent <= mail.horizon

\* What a round of pages lists, as of its first.
Listing ==
    { m \in Messages : mail.loc[m] = run.folder /\ mail.at[m] >= run.tokens[run.folder] }

DeltaPage ==
    /\ pc = "delta" /\ ~ Refused
    /\ LET rest == IF run.paged THEN run.unlisted ELSE Listing IN
       \E page \in SUBSET rest :
          /\ Cardinality(page) <= PageSize
          /\ page = {} => ~ run.paged \/ rest = {}
          /\ run' = [ run EXCEPT !.todo = page, !.unlisted = rest \ page, !.paged = TRUE,
                                 !.token = IF run.paged THEN @ ELSE mail.clock + 1 ]
    /\ pc' = "messages"
    /\ UNCHANGED << mail, archived, stored, faults >>

\* 410: the token is dropped and the folder starts over, once.
Resync ==
    /\ pc = "delta" /\ Refused /\ ~ run.resynced
    /\ run' = [ run EXCEPT !.resynced = TRUE, !.paged = FALSE, !.token = 0, !.unlisted = {},
                           !.tokens[run.folder] = 0 ]
    /\ UNCHANGED << mail, archived, stored, pc, faults >>

\* The tally grows: the run goes on at `to` unless failures stop looking isolated.
Record(to) ==
    IF run.streak + 1 = MaxConsecutive
    THEN pc' = "idle" /\ run' = NoRun
    ELSE /\ pc' = to
         /\ run' = [ run EXCEPT !.streak = @ + 1, !.failed = TRUE ]

\* The rest of the folder is abandoned, which counts as one failure.
Abandon ==
    /\ pc = "delta"
    /\ \/ Refused /\ run.resynced /\ UNCHANGED faults
       \/ ~ Refused /\ Strikes("listFail")
    /\ Record("folders")
    /\ UNCHANGED << mail, archived, stored >>

-----------------------------------------------------------------------------
(* fetchMessageOrSkip, and processEmail for what it yields                 *)

Handle(m, streak, failed) ==
    /\ pc = "messages" /\ m \in run.todo
    /\ run' = [ run EXCEPT !.todo = @ \ {m}, !.streak = streak, !.failed = failed ]

Archivable(m) == m \in There \ (archived \cup Excused)

Duplicate(m) ==
    /\ m \in archived
    /\ Handle(m, run.streak, run.failed)
    /\ UNCHANGED << mail, archived, stored, pc, faults >>

\* 404, or a draft.
Skip(m) ==
    /\ m \notin archived /\ ~ Archivable(m)
    /\ Handle(m, 0, run.failed)
    /\ UNCHANGED << mail, archived, stored, pc, faults >>

Archive(m) ==
    /\ Archivable(m)
    /\ Handle(m, 0, run.failed)
    /\ archived' = archived \cup {m}
    /\ UNCHANGED << mail, stored, pc, faults >>

ArchiveFails(m) ==
    /\ Archivable(m)
    /\ Strikes("archiveFail")
    /\ Handle(m, 0, TRUE)
    /\ UNCHANGED << mail, archived, stored, pc >>

FetchFails(m) ==
    /\ m \in There \ archived
    /\ Strikes("fetchFail")
    /\ IF run.streak + 1 = MaxConsecutive
       THEN pc = "messages" /\ m \in run.todo /\ pc' = "idle" /\ run' = NoRun
       ELSE pc' = pc /\ Handle(m, run.streak + 1, TRUE)
    /\ UNCHANGED << mail, archived, stored >>

\* Only the last page carries a deltaLink.
TokenAfterPage ==
    IF run.unlisted = {} THEN [ run.tokens EXCEPT ![run.folder] = run.token ] ELSE run.tokens

PageDone ==
    /\ pc = "messages" /\ run.todo = {}
    /\ run' = [ run EXCEPT !.tokens = TokenAfterPage ]
    /\ pc' = IF run.unlisted = {} THEN "folders" ELSE "delta"
    /\ UNCHANGED << mail, archived, stored, faults >>

\* process-mailbox stores the tokens of a run in which nothing failed.
Finish ==
    /\ pc = "finish"
    /\ stored' = IF run.failed THEN stored ELSE run.tokens
    /\ pc' = "idle" /\ run' = NoRun
    /\ UNCHANGED << mail, archived, faults >>

Crash == pc # "idle" /\ Strikes("crash") /\ Abort

-----------------------------------------------------------------------------
MessageStep(m) ==
    \/ Duplicate(m) \/ Skip(m) \/ Archive(m) \/ ArchiveFails(m) \/ FetchFails(m)

RunStep ==
    \/ Start \/ (\E f \in Folders : NextFolder(f)) \/ NoFolderLeft \/ FoldersFail
    \/ DeltaPage \/ Resync \/ Abandon
    \/ (\E m \in Messages : MessageStep(m))
    \/ PageDone \/ Finish

Next ==
    \/ RunStep
    \/ (\E m \in Messages : Vanish(m) \/ \E f \in Folders : Deliver(m, f))
    \/ Expire \/ Crash

Spec == Init /\ [][Next]_vars

\* The messages the stored tokens will not list again.
Passed == { m \in There : mail.at[m] < stored[mail.loc[m]] }
=============================================================================
