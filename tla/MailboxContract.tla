--------------------------- MODULE MailboxContract ---------------------------
(***************************************************************************)
(* What a process-mailbox job promises, without its concurrency: it        *)
(* archives what the connector offers, each dedup key once, and then       *)
(* reports one outcome.  SyncCycle counts these outcomes.                  *)
(***************************************************************************)
CONSTANTS
    Emails,     \* the messages of the mailbox
    KeyOf,      \* the dedup key of each
    Drafts      \* the unsent drafts a live mailbox's job leaves alone

VARIABLES
    offered,    \* what the connector has offered this run
    rows,       \* the mailbox's archived_emails rows
    outcome     \* the run's outcome, "none" while it runs

vars == << offered, rows, outcome >>

Outcomes == { "success", "partial", "skip", "error", "unreported", "crashed" }

\* A message counts as archived when its dedup key has a row.
Archived(e) == \E r \in rows : KeyOf[r] = KeyOf[e]

Init ==
    /\ offered = {}
    /\ rows = {}
    /\ outcome = "none"

Offer(e) ==
    /\ outcome = "none"
    /\ offered' = offered \cup {e}
    /\ UNCHANGED << rows, outcome >>

Archive(e) ==
    /\ outcome = "none"
    /\ e \in offered \ Drafts
    /\ ~ Archived(e)
    /\ rows' = rows \cup {e}
    /\ UNCHANGED << offered, outcome >>

\* A success leaves nothing behind; any other outcome may be reported at any
\* time, since any failure ends a mailbox.
Report(o) ==
    /\ outcome = "none"
    /\ o = "success" => \A e \in offered \ Drafts : Archived(e)
    /\ outcome' = o
    /\ UNCHANGED << offered, rows >>

\* The next cycle's job for the mailbox.
Begin ==
    /\ outcome # "none"
    /\ outcome' = "none"
    /\ offered' = {}
    /\ UNCHANGED rows

Next ==
    \/ \E e \in Emails : Offer(e) \/ Archive(e)
    \/ \E o \in Outcomes : Report(o)
    \/ Begin

Spec == Init /\ [][Next]_vars

\* Every run ends with an outcome.
FairSpec == Spec /\ WF_vars(\E o \in Outcomes : Report(o))
=============================================================================
