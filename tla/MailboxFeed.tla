---------------------------- MODULE MailboxFeed ----------------------------
(***************************************************************************)
(* What every connector of a live mailbox promises, whatever its provider  *)
(* calls its sync state: a message the stored state has moved past has     *)
(* been archived, unless a run gave it up, and one that stays in the       *)
(* mailbox and is not passed is archived in the end.                       *)
(***************************************************************************)
CONSTANTS
    Messages,
    Excused     \* messages that are not for the archive: drafts, empty ones

VARIABLES
    there,      \* the messages in the mailbox
    archived,   \* those the archive holds
    passed,     \* those in the mailbox that the sync state will not list again
    skipped     \* those some run had listed when it gave their folder up

vars == << there, archived, passed, skipped >>

Init == there = {} /\ archived = {} /\ passed = {} /\ skipped = {}

Arrive(m) ==
    /\ m \notin there
    /\ there' = there \cup {m}
    /\ UNCHANGED << archived, passed, skipped >>

Vanish(m) ==
    /\ m \in there
    /\ there' = there \ {m}
    /\ passed' = passed \ {m}
    /\ UNCHANGED << archived, skipped >>

Archive(m) ==
    /\ m \in there \ (archived \cup Excused)
    /\ archived' = archived \cup {m}
    /\ UNCHANGED << there, passed, skipped >>

\* The sync state of a run is stored.  It may also list again what an older
\* state had passed.
Advance(S) ==
    /\ S \subseteq there \cap (archived \cup Excused \cup skipped)
    /\ passed' = S
    /\ UNCHANGED << there, archived, skipped >>

\* A run gives up a folder behind the messages it has listed there.
Skip(S) ==
    /\ skipped' = skipped \cup S
    /\ UNCHANGED << there, archived, passed >>

Next ==
    \/ \E m \in Messages : Arrive(m) \/ Vanish(m) \/ Archive(m)
    \/ \E S \in SUBSET Messages : Advance(S) \/ Skip(S)

Spec == Init /\ [][Next]_vars

\* What stays in the mailbox reaches the archive, unless the sync state passed it.
FairSpec == Spec /\ \A m \in Messages \ Excused : WF_vars(m \notin passed /\ Archive(m))
=============================================================================
