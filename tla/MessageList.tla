---------------------------- MODULE MessageList -----------------------------
(***************************************************************************)
(* The list of a merge group's messages in the browser: its pages, the     *)
(* rows ticked across them and their bulk deletion, which goes on request  *)
(* by request while the user navigates and ticks.                          *)
(***************************************************************************)
EXTENDS FiniteSets, FiniteSetsExt, Naturals

CONSTANTS
    Messages,       \* with their id, source, root and date
    Visible,        \* those the reader's policies admit
    PageSize, MaxDeeds, None

VARIABLES
    archive,        \* messages that still exist
    held,           \* messages RetentionHook.canDelete refuses
    shown,          \* the page of the list on screen
    selected,       \* selectedIds
    bulk,           \* the bulk deletion under way: what was asked, is left and is done
    moving,         \* the navigation under way, with its rows once read
    deeds,          \* of the user and of others, so far
    lost            \* the browser missed a deletion, its own answered with an error
                    \* among them, or a row was ticked that had gone

vars == << archive, held, shown, selected, bulk, moving, deeds, lost >>

ListAssumption ==
    /\ Visible \subseteq Messages /\ Visible # {}
    /\ PageSize \in Nat \ {0} /\ MaxDeeds \in Nat

NoBulk == [ asked |-> {}, left |-> {}, done |-> {} ]
Page(source, no, rows, read) == [ source |-> source, no |-> no, rows |-> rows, read |-> read ]
NoMove == Page(None, 0, {}, TRUE)

\* The messages of the source's merge group.
Root(source) == (CHOOSE m \in Messages : m.source = source).root
Listed(source) == { m \in archive \cap Visible : m.root = Root(source) }

\* The newest first; equal dates fall as they may.
Orders(found) ==
    { rank \in [ found -> 1..Cardinality(found) ] :
        \A m, n \in found : m # n => rank[m] # rank[n] /\ (m.date > n.date => rank[m] < rank[n]) }
ListPages(source, no) ==
    { { m \in Listed(source) : rank[m] > (no - 1) * PageSize /\ rank[m] <= no * PageSize } :
        rank \in Orders(Listed(source)) }

-----------------------------------------------------------------------------
Goto(source, no) == moving' = Page(source, no, {}, FALSE)

Init ==
    /\ archive = Messages /\ held \in { {} } \cup { {m} : m \in Visible }
    /\ shown = NoMove
    /\ \E m \in Visible : moving = Page(m.source, 1, {}, FALSE)
    /\ selected = {} /\ bulk = NoBulk /\ deeds = 0 /\ lost = FALSE

Deed == deeds < MaxDeeds /\ deeds' = deeds + 1

\* A navigation replaces the one under way.
HandleSourceChange ==
    /\ Deed
    /\ \E m \in Visible : shown.source \notin {None, m.source} /\ Goto(m.source, 1)
    /\ UNCHANGED << archive, held, shown, selected, bulk, lost >>

\* Previous, next and the numbers between them.
FollowPage ==
    /\ Deed
    /\ \E no \in { shown.no + 1, Max({ shown.no - 1, 1 }) } : shown.source # None /\ Goto(shown.source, no)
    /\ UNCHANGED << archive, held, shown, selected, bulk, lost >>

\* The server answers the page's load.
Load ==
    /\ ~moving.read
    /\ \E rows \in ListPages(moving.source, moving.no) : moving' = Page(moving.source, moving.no, rows, TRUE)
    /\ UNCHANGED << archive, held, shown, selected, bulk, deeds, lost >>

\* The list is drawn: the selection lives as long as its source is listed.
Render ==
    /\ moving # NoMove /\ moving.read
    /\ shown' = moving /\ moving' = NoMove
    /\ selected' = IF shown.source = moving.source THEN selected ELSE {}
    /\ UNCHANGED << archive, held, bulk, deeds, lost >>

-----------------------------------------------------------------------------
Ticks(ids) ==
    /\ Deed /\ shown.rows # {}
    /\ selected' = ids
    /\ lost' = (lost \/ ~(ids \ selected \subseteq archive))
    /\ UNCHANGED << archive, held, shown, bulk, moving >>
Toggle == \E m \in shown.rows : Ticks(IF m \in selected THEN selected \ {m} ELSE selected \cup {m})
ToggleAll == Ticks(IF shown.rows \subseteq selected THEN selected \ shown.rows ELSE selected \cup shown.rows)

\* confirmBulkDelete: one request after the other, for the ids selected when it began.
ConfirmBulkDelete ==
    /\ selected # {} /\ bulk = NoBulk
    /\ bulk' = [ asked |-> selected, left |-> selected, done |-> {} ]
    /\ UNCHANGED << archive, held, shown, selected, moving, deeds, lost >>

\* The ids that are ticked by now.
Queue_Fault(b) == IF b.asked = {} THEN {} ELSE selected \ b.done
Queue(b) == b.left

Deletable(m) == m \in archive /\ m \notin held

DeleteOne ==
    /\ \E m \in Queue(bulk) :
          /\ Deletable(m)
          /\ archive' = archive \ {m}
          /\ bulk' = [ bulk EXCEPT !.left = @ \ {m}, !.done = @ \cup {m} ]
    /\ UNCHANGED << held, shown, selected, moving, deeds, lost >>

\* The first refusal ends it, and the list is not loaded again. A deletion that
\* fails is one, also where only its audit entry failed and the message is gone.
BulkRefused ==
    /\ \E m \in Queue(bulk) :
          \/ UNCHANGED << archive, lost >>
          \/ Deletable(m) /\ archive' = archive \ {m} /\ lost' = TRUE
    /\ selected' = selected \ bulk.done /\ bulk' = NoBulk
    /\ UNCHANGED << held, shown, moving, deeds >>

BulkEnds ==
    /\ bulk # NoBulk /\ Queue(bulk) = {}
    /\ selected' = {} /\ bulk' = NoBulk /\ Goto(shown.source, 1)
    /\ UNCHANGED << archive, held, shown, deeds, lost >>

-----------------------------------------------------------------------------
\* A request that gets no answer throws out of the loop, which clears no selection.
BulkThrows ==
    /\ Deed /\ bulk # NoBulk /\ bulk' = NoBulk /\ lost' = TRUE
    /\ UNCHANGED << archive, held, shown, selected, moving >>

\* Someone else deletes a message, or a retention run does.
Elsewhere ==
    /\ Deed /\ lost' = TRUE
    /\ \E m \in archive \ held : archive' = archive \ {m}
    /\ UNCHANGED << held, shown, selected, bulk, moving >>

Next ==
    \/ HandleSourceChange \/ FollowPage \/ Load \/ Render
    \/ Toggle \/ ToggleAll \/ ConfirmBulkDelete \/ DeleteOne \/ BulkRefused \/ BulkEnds
    \/ BulkThrows \/ Elsewhere

Spec == Init /\ [][Next]_vars

-----------------------------------------------------------------------------
\* The bulk deletion deletes what was selected when it was confirmed and nothing
\* besides, whatever is ticked meanwhile (archived-emails/+page.svelte:50-80).
DeletesChosen == bulk.done \subseteq bulk.asked

\* What stays selected when a bulk deletion has ended still exists, unless the
\* browser missed a deletion or was told that one had failed which had not
\* (archived-emails/+page.svelte:56-59, 71).
SelectionStands == bulk = NoBulk /\ ~lost => selected \subseteq archive

\* A selection stays within the merge group it was made in, across the pages
\* (archived-emails/+page.svelte:29-36).
WithinGroup == \A ids \in {selected, bulk.asked} : \A m, n \in ids : m.root = n.root
=============================================================================
