---------------------------- MODULE SourcesPage -----------------------------
(***************************************************************************)
(* The page of the ingestion sources and the merge groups behind it: one   *)
(* administrator sends requests, some of them before earlier ones have     *)
(* been answered, and the page patches its own list with what it expects   *)
(* each of them to have done.  A request may do its work, or some of it,   *)
(* and still be answered with an error; another client of the API may      *)
(* merge a source into any other.                                          *)
(***************************************************************************)
EXTENDS Naturals, Sequences, Functions

CONSTANTS
    Ids,            \* sources, those that may be created included
    FileBased,      \* the sources that were imported from files
    None,           \* no source
    MaxPending,     \* bound: requests under way
    MaxSent         \* bound: requests sent

PageAssumption ==
    /\ FileBased \subseteq Ids /\ None \notin Ids /\ "absent" \notin Ids \cup {None}
    /\ MaxPending \in Nat /\ MaxSent \in Nat

VARIABLES
    rows,       \* ingestion_sources
    page,       \* the list, the selection and the dialogs
    pending,    \* the requests under way, in the order they were sent
    unused,     \* the ids that no source has had
    sent,       \* counts towards MaxSent
    slips       \* history: what the page is known not to cope with and has met

vars == << rows, page, pending, unused, sent, slips >>

Row == [ merged : Ids \cup {None}, status : { "active", "syncing", "paused", "error" } ]
Kinds == { "delete", "bulkDelete", "unmerge", "toggle", "sync", "bulkSync", "create", "edit" }
Phases == { "sent", "cascading", "ok", "failed" }

\* What a request asks for and of which sources, what is left of it to do, the row
\* it is answered with, and the groups on the page it is about.
Request ==
    [ kind : Kinds, phase : Phases, id : Ids \cup {None}, ids : SUBSET Ids, to : { "active", "paused" },
      target : Ids \cup {None}, left : SUBSET Ids, doomed : SUBSET Ids, row : Row, touches : SUBSET Ids ]

TypeOK ==
    /\ DOMAIN rows \subseteq Ids /\ \A s \in DOMAIN rows : rows[s] \in Row
    /\ DOMAIN page.list \subseteq Ids /\ \A s \in DOMAIN page.list : page.list[s] \in Row
    /\ page.selected \subseteq Ids /\ page.toDelete \in Ids \cup {None} /\ page.deleting \in BOOLEAN
    /\ pending \in Seq(Request)
    /\ unused \subseteq Ids /\ sent \in 0 .. MaxSent
    /\ slips \subseteq { "retargeted", "reselected", "halfDone", "crossed", "remerged" }

\* A root with children of which one was imported from a file, and a source alone.
Init ==
    /\ \E groups \in { g \in [ Ids -> Ids \cup {None, "absent"} ] :
            /\ \A s \in Ids : g[s] \in Ids => s # g[s] /\ g[g[s]] = None
            /\ \E s \in Ids : g[s] = "absent" } :
        rows = [ s \in { t \in Ids : groups[t] # "absent" } |->
                   [ merged |-> groups[s], status |-> IF s \in FileBased THEN "error" ELSE "active" ] ]
    /\ page = [ list |-> rows, selected |-> {}, toDelete |-> None, deleting |-> FALSE ]
    /\ pending = << >> /\ unused = Ids \ DOMAIN rows /\ sent = 0 /\ slips = {}

Roots(list) == { s \in DOMAIN list : list[s].merged = None }
Children(list, root) == { s \in DOMAIN list : list[s].merged = root }
GroupOf(list, s) == IF s \notin DOMAIN list THEN {s}
                    ELSE LET root == IF list[s].merged = None THEN s ELSE list[s].merged
                         IN {root} \cup Children(list, root)

\* getGroupStatus, of a group as the page lists it.
GroupStatus(root) ==
    LET all == {root} \cup Children(page.list, root)
        Some(status) == \E s \in all : page.list[s].status = status
    IN IF Some("error") THEN "error"
       ELSE IF Some("syncing") THEN "syncing"
       ELSE IF \A s \in all : page.list[s].status = "paused" THEN "paused"
       ELSE IF page.list[root].status = "paused" THEN "partially_active"
       ELSE page.list[root].status

-----------------------------------------------------------------------------
(* The user                                                                *)

Touches(ids) == UNION { GroupOf(page.list, s) : s \in ids }

Asked(kind, id, ids) ==
    [ kind |-> kind, phase |-> "sent", id |-> id, ids |-> ids, to |-> "active", target |-> None,
      left |-> ids, doomed |-> {}, row |-> [ merged |-> None, status |-> "active" ], touches |-> Touches(ids) ]

\* Requests about one group that are under way together are answered in any order.
Sends(request) ==
    /\ sent < MaxSent /\ sent' = sent + 1
    /\ Len(pending) < MaxPending
    /\ pending' = Append(pending, request)
    /\ slips' = IF \E i \in DOMAIN pending : pending[i].touches \cap request.touches # {}
                THEN slips \cup {"crossed"} ELSE slips
    /\ UNCHANGED rows

\* The dialog can be closed and opened for another source while a deletion runs.
OpenDeleteDialog(s) ==
    /\ s \in DOMAIN page.list /\ page.toDelete # s
    /\ page' = [ page EXCEPT !.toDelete = s ]
    /\ UNCHANGED << rows, pending, unused, sent, slips >>

ConfirmDelete ==
    /\ page.toDelete # None /\ ~ page.deleting
    /\ page' = [ page EXCEPT !.deleting = TRUE ]
    /\ Sends(Asked("delete", page.toDelete, {page.toDelete}))
    /\ UNCHANGED unused

Select(s) ==
    /\ s \in Roots(page.list)
    /\ page' = [ page EXCEPT !.selected = IF s \in @ THEN @ \ {s} ELSE @ \cup {s} ]
    /\ UNCHANGED << rows, pending, unused, sent, slips >>

HandleBulkDelete ==
    /\ page.selected # {} /\ ~ page.deleting
    /\ page' = [ page EXCEPT !.deleting = TRUE ]
    /\ Sends(Asked("bulkDelete", None, page.selected))
    /\ UNCHANGED unused

HandleBulkForceSync ==
    /\ page.selected # {}
    /\ Sends(Asked("bulkSync", None, page.selected))
    /\ UNCHANGED << page, unused >>

\* Unmerge, the switch, force sync and edit, of one listed source.
Asks(kind, s) ==
    /\ s \in DOMAIN page.list
    /\ kind = "unmerge" => page.list[s].merged # None
    /\ Sends([ Asked(kind, s, {s}) EXCEPT !.to = IF page.list[s].status = "paused" THEN "active" ELSE "paused" ])
    /\ UNCHANGED << page, unused >>

\* The form offers the roots of the list to merge into, the API any source.
HandleCreate(s, target) ==
    /\ s \in unused /\ unused' = unused \ {s}
    /\ target \in DOMAIN page.list \cup {None}
    /\ Sends([ Asked("create", s, {target} \ {None}) EXCEPT !.target = target ])
    /\ UNCHANGED page

-----------------------------------------------------------------------------
(* The server.  A request is executed some time before it is answered.     *)

Becomes(i, request) == pending' = [ pending EXCEPT ![i] = request ]
Executed(i) == [ pending[i] EXCEPT !.phase = "ok" ]
Executes(i, kind) == pending[i].kind = kind /\ pending[i].phase = "sent"
WithRow(s, row) == [ t \in DOMAIN rows \cup {s} |-> IF t = s THEN row ELSE rows[t] ]

\* The children are listed first.
DeleteReads(i, s) ==
    /\ s \in DOMAIN rows
    /\ Becomes(i, [ pending[i] EXCEPT !.phase = "cascading", !.id = s,
                    !.doomed = IF rows[s].merged = None THEN Children(rows, s) ELSE {} ])
    /\ UNCHANGED << rows, page, unused, sent, slips >>

\* A child that was unmerged since is deleted all the same, with the children it
\* has got since.  What is deleted beside it is gone already, and fails this one.
\* Whoever joined meanwhile loses its root: the reference is set to null.  The
\* audit entry is written behind each deletion, and may fail that one.
DeleteRows(i) ==
    /\ pending[i].phase = "cascading"
    /\ LET s == pending[i].id
           gone == {s} \cup pending[i].doomed \cup
                   UNION { Children(rows, t) : t \in pending[i].doomed \cap Roots(rows) }
           Drop(lost) == [ t \in DOMAIN rows \ lost |->
                             IF rows[t].merged \in lost THEN [ rows[t] EXCEPT !.merged = None ] ELSE rows[t] ]
       IN \/ /\ gone \subseteq DOMAIN rows
             /\ rows' = Drop(gone)
             /\ IF pending[i].left = {s} THEN Becomes(i, Executed(i))
                ELSE Becomes(i, [ pending[i] EXCEPT !.phase = "sent", !.left = @ \ {s} ])
             /\ UNCHANGED slips
          \/ \E lost \in SUBSET (gone \cap DOMAIN rows) :
             /\ s \in lost => lost = gone
             /\ rows' = Drop(lost)
             /\ Becomes(i, [ pending[i] EXCEPT !.phase = "failed" ])
             /\ slips' = IF lost # {} \/ pending[i].left # pending[i].ids
                         THEN slips \cup {"halfDone"} ELSE slips
    /\ UNCHANGED << page, unused, sent >>

Refuses(i) ==
    /\ pending[i].phase = "sent" /\ pending[i].kind # "bulkSync"
    /\ Becomes(i, [ pending[i] EXCEPT !.phase = "failed" ])
    /\ slips' = IF pending[i].left # pending[i].ids THEN slips \cup {"halfDone"} ELSE slips
    /\ UNCHANGED << rows, page, unused, sent >>

\* The answer to a request whose rows are written: the audit entry comes behind
\* the write, and when that fails the answer is an error.
Concludes(i, row) ==
    \/ Becomes(i, [ Executed(i) EXCEPT !.row = row ]) /\ UNCHANGED slips
    \/ Becomes(i, [ pending[i] EXCEPT !.phase = "failed" ]) /\ slips' = slips \cup {"halfDone"}

Execute(i) ==
    LET request == pending[i] IN
    \/ /\ Executes(i, "delete") \/ Executes(i, "bulkDelete")
       /\ \E s \in request.left : DeleteReads(i, s)
    \/ /\ Executes(i, "unmerge")
       /\ request.id \in DOMAIN rows /\ rows[request.id].merged # None
       /\ rows' = [ rows EXCEPT ![request.id].merged = None ]
       /\ Concludes(i, rows'[request.id])
       /\ UNCHANGED << page, unused, sent >>
    \/ /\ Executes(i, "toggle") /\ request.id \in DOMAIN rows
       /\ rows' = [ rows EXCEPT ![request.id].status = request.to ]
       /\ Concludes(i, request.row)
       /\ UNCHANGED << page, unused, sent >>
    \/ /\ Executes(i, "edit") /\ request.id \in DOMAIN rows
       /\ Becomes(i, [ Executed(i) EXCEPT !.row = rows[request.id] ])
       /\ UNCHANGED << rows, page, unused, sent, slips >>

\* A fault: a source that is merged into a child becomes a child of a child.
ResolvedTarget_Fault(target) == target

\* Whoever merges into a child merges into its root.
ResolvedTarget(target) ==
    IF target = None \/ rows[target].merged = None THEN target ELSE rows[target].merged

ExecuteCreate(i) ==
    /\ Executes(i, "create") /\ pending[i].target \in DOMAIN rows \cup {None}
    /\ rows' = WithRow(pending[i].id, [ merged |-> ResolvedTarget(pending[i].target), status |-> "active" ])
    /\ Concludes(i, rows'[pending[i].id])
    /\ UNCHANGED << page, unused, sent >>

\* triggerForceSync makes the source active, whose job is added next, and syncs
\* the children of a root that are no imports and are not paused.
ToSync(s) == {s} \cup { t \in Children(rows, s) : rows[s].merged = None /\ t \notin FileBased
                                                  /\ rows[t].status \in { "active", "error" } }
Synced(s, some) ==
    [ t \in DOMAIN rows |->
        IF t \in some THEN [ rows[t] EXCEPT !.status = "syncing" ]
        ELSE IF t = s THEN [ rows[t] EXCEPT !.status = "active" ] ELSE rows[t] ]

\* One that fails may have got to any of its steps.
SyncFails(s) ==
    /\ \/ UNCHANGED rows
       \/ s \in DOMAIN rows /\ \E some \in SUBSET ToSync(s) :
              (some # {} => s \in some) /\ rows' = Synced(s, some)
    /\ slips' = slips \cup {"halfDone"}

ExecuteSync(i) ==
    \/ /\ Executes(i, "sync") /\ pending[i].id \in DOMAIN rows
       /\ \/ rows' = Synced(pending[i].id, ToSync(pending[i].id)) /\ Becomes(i, Executed(i)) /\ UNCHANGED slips
          \/ SyncFails(pending[i].id) /\ Becomes(i, [ pending[i] EXCEPT !.phase = "failed" ])
       /\ UNCHANGED << page, unused, sent >>
    \/ /\ Executes(i, "bulkSync")
       /\ \E s \in pending[i].left :
          /\ \/ s \in DOMAIN rows /\ rows' = Synced(s, ToSync(s)) /\ UNCHANGED slips
             \/ SyncFails(s)
          /\ Becomes(i, [ pending[i] EXCEPT !.left = @ \ {s},
                                            !.phase = IF pending[i].left = {s} THEN "ok" ELSE "sent" ])
       /\ UNCHANGED << page, unused, sent >>

\* An update writes the group it is sent as it is: the form sends none, a client
\* of the API may.
UpdateMerge(s, target) ==
    /\ sent < MaxSent /\ sent' = sent + 1
    /\ s \in DOMAIN rows /\ target \in DOMAIN rows \cup {None} /\ rows[s].merged # target
    /\ rows' = [ rows EXCEPT ![s].merged = target ]
    /\ slips' = slips \cup {"remerged"}
    /\ UNCHANGED << page, pending, unused >>

-----------------------------------------------------------------------------
(* The answers                                                             *)

\* The requests under way but the i-th.
Others(i) == SubSeq(pending, 1, i - 1) \o SubSeq(pending, i + 1, Len(pending))

Lands(i, list) ==
    /\ pending[i].phase = "ok"
    /\ page' = [ page EXCEPT !.list = list ]
    /\ pending' = Others(i)
    /\ UNCHANGED << rows, unused, sent, slips >>

Without(gone) == Restrict(page.list, { s \in DOMAIN page.list : s \notin gone /\ page.list[s].merged \notin gone })
Replaced(s, row) == IF s \in DOMAIN page.list THEN [ page.list EXCEPT ![s] = row ] ELSE page.list

\* A fault: the children of a deleted root stay on the list.
Deleted_Fault(i) ==
    /\ pending[i].kind = "delete" /\ pending[i].phase = "ok"
    /\ page' = [ page EXCEPT !.list = Restrict(@, DOMAIN @ \ {page.toDelete}),
                             !.toDelete = None, !.deleting = FALSE ]
    /\ pending' = Others(i)
    /\ slips' = IF page.toDelete # pending[i].id THEN slips \cup {"retargeted"} ELSE slips
    /\ UNCHANGED << rows, unused, sent >>

\* What leaves the list is the source the dialog is for by now.
Deleted(i) ==
    /\ pending[i].kind = "delete" /\ pending[i].phase = "ok"
    /\ page' = [ page EXCEPT !.list = Without({page.toDelete} \ {None}), !.toDelete = None, !.deleting = FALSE ]
    /\ pending' = Others(i)
    /\ slips' = IF page.toDelete # pending[i].id THEN slips \cup {"retargeted"} ELSE slips
    /\ UNCHANGED << rows, unused, sent >>

\* What leaves the list is what is selected by now.
BulkDeleted(i) ==
    /\ pending[i].kind = "bulkDelete" /\ pending[i].phase = "ok"
    /\ page' = [ page EXCEPT !.list = Without(page.selected), !.selected = {}, !.deleting = FALSE ]
    /\ pending' = Others(i)
    /\ slips' = IF page.selected # pending[i].ids THEN slips \cup {"reselected"} ELSE slips
    /\ UNCHANGED << rows, unused, sent >>

\* The roots that are selected by now, and the children the server syncs with them.
BulkSynced(i) ==
    /\ pending[i].kind = "bulkSync" /\ pending[i].phase = "ok"
    /\ LET Syncs(s) == s \in page.selected
                       \/ (page.list[s].merged \in page.selected /\ s \notin FileBased
                           /\ page.list[s].status \in { "active", "error" })
       IN page' = [ page EXCEPT !.selected = {},
                    !.list = [ s \in DOMAIN @ |-> IF Syncs(s) THEN [ @[s] EXCEPT !.status = "syncing" ] ELSE @[s] ] ]
    /\ pending' = Others(i)
    /\ slips' = IF page.selected # pending[i].ids THEN slips \cup {"reselected"} ELSE slips
    /\ UNCHANGED << rows, unused, sent >>

Patched(i) ==
    LET request == pending[i]
        Sets(status) == IF request.id \in DOMAIN page.list
                        THEN [ page.list EXCEPT ![request.id].status = status ] ELSE page.list
    IN \/ request.kind \in { "unmerge", "edit" } /\ request.phase = "ok" /\ Lands(i, Replaced(request.id, request.row))
       \/ request.kind = "create" /\ request.phase = "ok"
          /\ Lands(i, [ s \in DOMAIN page.list \cup {request.id} |->
                          IF s = request.id THEN request.row ELSE page.list[s] ])
       \/ request.kind = "toggle" /\ Lands(i, Sets(request.to))
       \/ request.kind = "sync" /\ Lands(i, Sets("syncing"))

Failed(i) ==
    /\ pending[i].phase = "failed"
    /\ page' = IF pending[i].kind \in { "delete", "bulkDelete" } THEN [ page EXCEPT !.deleting = FALSE ] ELSE page
    /\ pending' = Others(i)
    /\ UNCHANGED << rows, unused, sent, slips >>

\* refreshSources, after an authorization, and a reload of the page.
RefreshSources ==
    /\ pending = << >> /\ page.list # rows
    /\ page' = [ page EXCEPT !.list = rows ]
    /\ slips' = slips \cap {"remerged"}
    /\ UNCHANGED << rows, pending, unused, sent >>

Next ==
    \/ \E s \in Ids : OpenDeleteDialog(s) \/ Select(s)
    \/ ConfirmDelete \/ HandleBulkDelete \/ HandleBulkForceSync
    \/ \E kind \in { "unmerge", "toggle", "sync", "edit" }, s \in Ids : Asks(kind, s)
    \/ \E s \in Ids, target \in Ids \cup {None} : HandleCreate(s, target)
    \/ \E i \in DOMAIN pending : DeleteRows(i) \/ Refuses(i) \/ Execute(i) \/ ExecuteCreate(i) \/ ExecuteSync(i)
    \/ \E i \in DOMAIN pending : Deleted(i) \/ BulkDeleted(i) \/ BulkSynced(i) \/ Patched(i) \/ Failed(i)
    \/ \E s \in Ids, target \in Ids \cup {None} : UpdateMerge(s, target)
    \/ RefreshSources

Spec == Init /\ [][Next]_vars

-----------------------------------------------------------------------------
\* Merge groups stay flat: what a source is merged into exists and is a root,
\* unless a client of the API has written a group.
Flat ==
    \A s \in DOMAIN rows : rows[s].merged # None =>
        rows[s].merged \in DOMAIN rows /\ rows[rows[s].merged].merged = None
GroupsFlat == "remerged" \notin slips => Flat

\* When everything is answered the page lists the sources there are, in their
\* groups, and shows a group as paused just when all of it is: unless a request
\* failed that had done its work or some of it, requests about one group crossed,
\* the dialog or the selection changed under a request, or a client of the API
\* has written a group.
PageMirrors ==
    pending = << >> /\ slips = {} =>
        /\ DOMAIN page.list = DOMAIN rows
        /\ \A s \in DOMAIN rows : page.list[s].merged = rows[s].merged
        /\ \A root \in Roots(rows) :
            (GroupStatus(root) = "paused") = (\A s \in GroupOf(rows, root) : rows[s].status = "paused")
=============================================================================
