---------------------------- MODULE MessageView -----------------------------
(***************************************************************************)
(* One message on its page in the browser: its thread, its preview parsed  *)
(* beside the page, its integrity report, its files, its legal hold and    *)
(* its deletion, while the user walks the thread and others delete.        *)
(***************************************************************************)
EXTENDS Naturals

CONSTANTS
    Mails,          \* with their merge group, thread, file, parts and whether they parse
    Readers,        \* those the reader's policies admit
    MaxSteps, Nobody

VARIABLES
    stored,         \* messages that still exist
    taken,          \* files that deletions which failed took from messages that stay
    onHold,         \* messages RetentionHook.canDelete refuses
    keyed,          \* an encryption key is configured
    screen,         \* the message on screen with its report, then a list
    loading,        \* the navigation under way, with its data once read
    parses,         \* messages being parsed, per display, by the load they belong to
    drawn,          \* what each display holds
    deleting,       \* the message whose deletion the page awaits
    goner,          \* the message it deleted
    steps,          \* of the user and of others, so far
    overtaken       \* displays where an older parse ended after a newer one

vars == << stored, taken, onHold, keyed, screen, loading, parses, drawn, deleting, goner, steps, overtaken >>

FileStates == { "archived", "altered", "garbled", "missing" }
ViewAssumption ==
    /\ Readers \subseteq Mails /\ Nobody \notin Mails /\ MaxSteps \in Nat
    /\ \A m \in Mails : \A file \in m.parts \cup {m.file} : file.bytes \in FileStates
    /\ \A m, n \in Mails : m.file \notin n.parts

Displays == {"preview", "embedded"}
Undrawn == [ d \in Displays |-> [ id |-> Nobody, load |-> 0 ] ]
NotFound == [ at |-> "message", id |-> Nobody, email |-> FALSE, parts |-> {}, offered |-> {},
              thread |-> {}, load |-> 0 ]
Resting == [ target |-> [ NotFound EXCEPT !.at = "none" ], read |-> TRUE ]

-----------------------------------------------------------------------------
\* The attachments a message still has, and the messages' files that are gone.
Taken(m, file) == [ id |-> m, file |-> file ] \in taken
Parts(m) == { p \in m.parts : ~Taken(m, p) }
Erased(file) == \E m \in Mails : file = m.file /\ Taken(m, file)

\* A file without the prefix is handed over as it is, and so is every file
\* where there is no key; one that was altered may no longer be decrypted.
Get(file) ==
    CASE file.bytes = "missing" \/ Erased(file) -> "unreadable"
      [] file.bytes = "garbled" /\ ~Erased(file) -> IF keyed /\ file.prefix THEN "unreadable" ELSE "other"
      [] file.bytes = "altered" /\ ~Erased(file) -> "other"
      [] file.bytes = "archived" /\ ~Erased(file) -> IF file.prefix /\ ~keyed THEN "other" ELSE "original"

\* An attachment that cannot be read is invalid; for the message's file it throws.
CheckEmailIntegrity(m) ==
    [ email |-> Get(m.file) = "original", parts |-> { p \in Parts(m) : Get(p) = "original" } ]

\* The thread spans the merge group, whatever the reader may open.
Thread_Fault(m) == { n \in stored : n.thread = m.thread }
Thread(m) == { n \in stored : n.thread = m.thread /\ n.root = m.root }

\* Any message that carries the bytes and that the reader may see.
Carries(m, file) == file = m.file \/ file \in Parts(m)
CanAccessStoragePath_Fault(file) == \A m \in stored : Carries(m, file) => m \in Readers
CanAccessStoragePath(file) == \E m \in stored \cap Readers : Carries(m, file)

\* downloadFile: refused to whom no message carries it, not found, or handed over.
DownloadFile(file) == IF CanAccessStoragePath(file) THEN Get(file) ELSE "refused"

\* What the page offers for download, and what its report says of a file.
Offered(m) == {m.file} \cup Parts(m)
Says(file) == IF file = screen.id.file THEN screen.email ELSE file \in screen.parts

Shown(m) ==
    IF m \in stored \cap Readers /\ Get(m.file) # "unreadable"
    THEN LET report == CheckEmailIntegrity(m) IN
         [ NotFound EXCEPT !.id = m, !.email = report.email, !.parts = report.parts,
                           !.offered = Offered(m), !.thread = Thread(m), !.load = steps + 1 ]
    ELSE NotFound

-----------------------------------------------------------------------------
Goto(target) == loading' = [ target |-> target, read |-> FALSE ]
Toward(m) == [ NotFound EXCEPT !.id = m ]
Step == steps < MaxSteps /\ steps' = steps + 1

Init ==
    /\ stored = Mails /\ taken = {} /\ onHold = {} /\ keyed \in BOOLEAN
    /\ screen = NotFound /\ deleting = Nobody /\ goner = Nobody
    /\ \E m \in Readers : loading = [ target |-> Toward(m), read |-> FALSE ]
    /\ parses = {} /\ drawn = Undrawn /\ steps = 0 /\ overtaken = {}

\* The links of the thread, which replace the navigation under way.
OpenThread ==
    /\ Step /\ screen.at = "message"
    /\ \E m \in screen.thread \ {screen.id} : Goto(Toward(m))
    /\ UNCHANGED << stored, taken, onHold, keyed, screen, parses, drawn, deleting, goner, overtaken >>

\* The server answers the page's load; what throws there is not found.
Load ==
    /\ ~loading.read
    /\ \E target \in IF loading.target.at = "list" THEN {loading.target} ELSE { Shown(loading.target.id), NotFound } :
          loading' = [ target |-> target, read |-> TRUE ]
    /\ UNCHANGED << stored, taken, onHold, keyed, screen, parses, drawn, deleting, goner, steps, overtaken >>

\* The page is drawn: both displays begin to parse, and the preview goes with
\* the message it stands beside.
Started(target) == { [ display |-> d, id |-> target.id, load |-> target.load ] : d \in Displays }
Render ==
    LET target == loading.target IN
    /\ loading # Resting /\ loading.read
    /\ screen' = target /\ loading' = Resting
    /\ CASE target.at = "list" -> parses' = {} /\ drawn' = Undrawn /\ overtaken' = {}
         [] target = NotFound ->
              /\ parses' = { p \in parses : p.display = "embedded" }
              /\ drawn' = [ drawn EXCEPT !["preview"] = Undrawn["preview"] ]
              /\ overtaken' = overtaken \ {"preview"}
         [] OTHER -> parses' = parses \cup Started(target) /\ UNCHANGED << drawn, overtaken >>
    /\ UNCHANGED << stored, taken, onHold, keyed, deleting, goner, steps >>

\* Parsing ends in any order; a message that cannot be parsed leaves what was drawn.
Parsed ==
    /\ \E p \in parses :
          /\ parses' = parses \ {p}
          /\ drawn' = IF p.id.parsable THEN [ drawn EXCEPT ![p.display] = [ id |-> p.id, load |-> p.load ] ] ELSE drawn
          /\ overtaken' =
               IF p.id.parsable /\ p.load < drawn[p.display].load THEN overtaken \cup {p.display} ELSE overtaken
    /\ UNCHANGED << stored, taken, onHold, keyed, screen, loading, deleting, goner, steps >>

-----------------------------------------------------------------------------
\* confirmDelete, which then lists the source of the message on screen.
ConfirmDelete ==
    /\ Step /\ screen.at = "message" /\ screen.id # Nobody /\ deleting = Nobody
    /\ deleting' = screen.id
    /\ UNCHANGED << stored, taken, onHold, keyed, screen, loading, parses, drawn, goner, overtaken >>

\* deleteArchivedEmail, step by step: each attachment no other message carries, the
\* message's file unless another has it too, the row. What throws leaves the rest.
Removed(m) == stored' = stored \ {m} /\ UNCHANGED taken
\* Whoever else has the file.
Sole_Fault(m) == m \in stored
Sole(m) == \A n \in stored : n.file = m.file => n = m
Reached(m) == SUBSET Parts(m) \cup IF Sole(m) THEN {Offered(m)} ELSE {}
TornApart(m) ==
    /\ \E files \in Reached(m) : taken' = taken \cup { [ id |-> m, file |-> file ] : file \in files }
    /\ UNCHANGED stored

Deleted ==
    /\ deleting \in stored \ onHold
    /\ Removed(deleting) /\ goner' = deleting /\ deleting' = Nobody
    \* Where no message is on screen by now, reading its source throws.
    /\ IF screen.id = Nobody THEN UNCHANGED loading
       ELSE Goto([ NotFound EXCEPT !.at = "list", !.id = screen.id ])
    /\ UNCHANGED << onHold, keyed, screen, parses, drawn, steps, overtaken >>

DeleteRefused ==
    /\ deleting # Nobody /\ deleting \notin stored \ onHold
    /\ deleting' = Nobody
    /\ UNCHANGED << stored, taken, onHold, keyed, screen, loading, parses, drawn, goner, steps, overtaken >>

\* It throws on the way, or behind the row, where the audit entry is written.
DeleteFails ==
    /\ deleting \in stored \ onHold
    /\ TornApart(deleting) \/ Removed(deleting)
    /\ deleting' = Nobody
    /\ UNCHANGED << onHold, keyed, screen, loading, parses, drawn, goner, steps, overtaken >>

\* applyHold and removeHold.
HoldToggled(m) == IF m \in onHold THEN onHold \ {m} ELSE onHold \cup {m}

\* The hold form of the message, whose answer loads the page again.
Hold ==
    /\ Step /\ screen.at = "message" /\ screen.id \in stored
    /\ onHold' = HoldToggled(screen.id)
    /\ Goto(Toward(screen.id))
    /\ UNCHANGED << stored, taken, keyed, screen, parses, drawn, deleting, goner, overtaken >>

\* Someone else deletes a message, or a retention run does, or fails to.
Elsewhere ==
    /\ Step /\ \E m \in stored \ onHold : Removed(m) \/ TornApart(m)
    /\ UNCHANGED << onHold, keyed, screen, loading, parses, drawn, deleting, goner, overtaken >>

Next ==
    \/ OpenThread \/ Load \/ Render \/ Parsed
    \/ ConfirmDelete \/ Deleted \/ DeleteRefused \/ DeleteFails \/ Hold \/ Elsewhere

Spec == Init /\ [][Next]_vars

-----------------------------------------------------------------------------
OnScreen == screen.at = "message" /\ screen.id # Nobody

\* Once the parsing has ended, the message on screen is the one its preview and
\* its embedded attachments belong to, unless it cannot be parsed or an older
\* parse ended last ([id]/+page.svelte:89-115, EmailPreview.svelte:77-99).
PreviewIsTheMessage ==
    OnScreen /\ screen.id.parsable =>
        \A d \in Displays \ overtaken : (\A p \in parses : p.display # d) => drawn[d].id = screen.id

\* The report calls a file the page offers valid just when its bytes are those
\* archived and, if they were stored encrypted, there is a key
\* (IntegrityService.ts:25-103).
ReportTells ==
    OnScreen => \A file \in screen.offered : Says(file) <=> file.bytes = "archived" /\ (file.prefix => keyed)

\* While the message exists, what its page offers is served to the reader, also
\* what messages hidden from the reader carry too, and what other messages carry
\* whose deletion failed, unless a failed deletion of this very message has taken
\* it (ArchivedEmailService.ts:131-170, 290-361).
Kept(file) == file.bytes \in {"archived", "altered"}
OfferedIsServed ==
    OnScreen /\ screen.id \in stored =>
        \A file \in screen.offered :
            ~Taken(screen.id, file) =>
                DownloadFile(file) # "refused" /\ (Kept(file) => DownloadFile(file) # "unreadable")

\* A deletion leads back to the mailbox the deleted message was read in, also
\* when its thread was walked meanwhile ([id]/+page.svelte:263-273).
ReturnsToMailbox == screen.at = "list" => screen.id.root = goner.root
=============================================================================
