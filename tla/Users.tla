------------------------------- MODULE Users --------------------------------
(***************************************************************************)
(* The accounts: the first one set up, then created, edited and deleted by *)
(* administrators from the users page, and edited by their holders.  Every *)
(* request is a row of statements with no transaction around them.  The    *)
(* page patches its own list with the answers.                             *)
(***************************************************************************)
EXTENDS FiniteSets, Naturals

CONSTANTS
    Users,          \* ids the table may hold
    Administrator,  \* who is signed in at the pages
    Holder,         \* a user who edits the own profile
    Pages,
    Roles, SuperAdmin,
    UserEmails, Lower,    \* normalizeEmailAddress
    MaxCalls, MaxFailures, None

VARIABLES
    people,         \* the rows of users with their user_roles; None where there is none
    roles,          \* the roles there are
    lists,          \* the list each users page holds, and the row its delete dialog is about
    calls,          \* the request of each page and of the holder's profile
    used,           \* requests sent and roles deleted so far, which also names new rows
    failures,
    trail,          \* per user the address its entries in the audit log lead to, each from the one before
    disturbed         \* users a request wrote while another stood between its own statements, or failed

vars == << people, roles, lists, calls, used, failures, trail, disturbed >>

UsersAssumption ==
    /\ {Administrator, Holder} \subseteq Users /\ SuperAdmin \in Roles
    /\ \A a \in UserEmails : Lower[a] \in UserEmails /\ Lower[Lower[a]] = Lower[a]
    /\ None \notin Users \cup UserEmails \cup Roles
    /\ \A a \in UserEmails, provider \in {"local", "oidc"}, held \in SUBSET Roles :
         None # [ email |-> a, provider |-> provider, roles |-> held ]
    /\ MaxCalls \in Nat /\ MaxFailures \in Nat

Callers == Pages \cup {Holder}
Idle == [ op |-> "none", phase |-> "none", id |-> None, email |-> None, role |-> None, original |-> None ]
Present(id) == people[id] # None
Person(email, provider, held) == [ email |-> email, provider |-> provider, roles |-> held ]
\* The public projection: the first role.
Shown(person) == IF person = None THEN None
                 ELSE [ email |-> person.email,
                        role |-> IF person.roles = {} THEN None ELSE CHOOSE r \in person.roles : TRUE ]

\* A new instance, or an administrator with two users, one of whom a provider asserts.
Init ==
    /\ \/ people = [ u \in Users |-> None ] /\ roles = Roles \ {SuperAdmin}
       \/ /\ \E other \in Roles, provider \in {"local", "oidc"} :
                \E a, h \in UserEmails :
                    /\ Lower[a] # Lower[h] /\ a = Lower[a]
                    /\ people = [ [ u \in Users |-> None ] EXCEPT ![Administrator] = Person(a, "local", {SuperAdmin}),
                                                                  ![Holder] = Person(h, provider, {other}) ]
          /\ roles = Roles
    /\ lists = [ p \in Pages |-> [ rows |-> [ u \in Users |-> Shown(people[u]) ], dialog |-> None, stale |-> FALSE ] ]
    /\ calls = [ c \in Callers |-> Idle ]
    /\ used = 0 /\ failures = 0
    /\ trail = [ u \in Users |-> IF people[u] = None THEN None ELSE people[u].email ]
    /\ disturbed = {}

-----------------------------------------------------------------------------
Midway(c) == calls[c].phase \notin {"none", "sent", "refused"}

\* What a statement changes: it crosses the requests that stand midway.
Writes(c, rows) ==
    /\ people' = rows
    /\ disturbed' = disturbed \cup { calls[d].id : d \in { d \in Callers \ {c} : Midway(d) } }
    /\ lists' = [ p \in Pages |-> IF p = c THEN lists[p] ELSE [ lists[p] EXCEPT !.stale = TRUE ] ]
Reads == UNCHANGED << people, roles, lists, used, failures, trail, disturbed >>

Goes(c, phase) == calls' = [ calls EXCEPT ![c].phase = phase ]
Refused(c) == Goes(c, "refused")
\* A statement the database refuses ends the request with what it did so far.
Breaks(c) == Refused(c) /\ UNCHANGED people /\ disturbed' = disturbed \cup {calls[c].id}
             /\ lists' = [ p \in Pages |-> [ lists[p] EXCEPT !.stale = TRUE ] ]

Asks(c, op, id, email, role) ==
    /\ calls[c] = Idle /\ used < MaxCalls /\ used' = used + 1
    /\ calls' = [ calls EXCEPT ![c] =
            [ op |-> op, phase |-> "sent", id |-> id, email |-> email, role |-> role, original |-> None ] ]
    /\ UNCHANGED << people, roles, failures, trail, disturbed >>

-----------------------------------------------------------------------------
\* AuthController.setup counts, createAdminUser counts again ...
Setup(p) ==
    /\ \A u \in Users : lists[p].rows[u] = None
    /\ \E id \in Users, email \in UserEmails : Asks(p, "setup", id, email, SuperAdmin)
    /\ UNCHANGED lists
CountsNone(c) ==
    /\ calls[c].op = "setup" /\ calls[c].phase \in {"sent", "counted"}
    /\ IF \E u \in Users : Present(u) THEN Refused(c)
       ELSE Goes(c, IF calls[c].phase = "sent" THEN "counted" ELSE "checked")
    /\ Reads

\* ... the row is inserted, and createAdminRole finds or makes the role.
Unique(email, but) == \A u \in Users \ {but} : Present(u) => people[u].email # email
InsertUser(c) ==
    /\ calls[c].phase = "checked" /\ calls[c].op \in {"setup", "create"}
    /\ IF ~Present(calls[c].id) /\ Unique(calls[c].email, calls[c].id)
       THEN /\ Writes(c, [ people EXCEPT ![calls[c].id] = Person(calls[c].email, "local", {}) ])
            /\ trail' = [ trail EXCEPT ![calls[c].id] = calls[c].email ]
            /\ roles' = IF calls[c].op = "setup" THEN roles \cup {SuperAdmin} ELSE roles
            /\ Goes(c, "stripped")
       ELSE Refused(c) /\ UNCHANGED << people, roles, lists, trail, disturbed >>
    /\ UNCHANGED << used, failures >>

-----------------------------------------------------------------------------
\* The users page; requirePermission, and the actor looked up by the controller.
Authorized == Present(Administrator) /\ SuperAdmin \in people[Administrator].roles

\* confirmDelete, and the dialog opened for another user before the answer.
ConfirmDelete(p) ==
    \E u \in Users :
        /\ lists[p].rows[u] # None
        /\ Asks(p, "delete", u, None, None)
        /\ lists' = [ lists EXCEPT ![p].dialog = u ]
OpenDelete(p) ==
    \E u \in Users \ {calls[p].id} :
        /\ calls[p].op = "delete" /\ lists[p].rows[u] # None
        /\ lists' = [ lists EXCEPT ![p].dialog = u ]
        /\ UNCHANGED << people, roles, calls, used, failures, trail, disturbed >>
SubmitNew(p) ==
    \E id \in Users, email \in UserEmails, role \in Roles :
        /\ ~Present(id) /\ \A c \in Callers : calls[c].id # id
        /\ \E u \in Users : lists[p].rows[u] # None
        /\ Asks(p, "create", id, email, role) /\ UNCHANGED lists
\* The form posts every field; a federated account's goes without its address.
SubmitEdit(p) ==
    \E id \in Users, email \in UserEmails \cup {None}, role \in Roles :
        /\ lists[p].rows[id] # None
        /\ (email = None) <=> (Present(id) /\ people[id].provider # "local")
        /\ Asks(p, "update", id, email, role) /\ UNCHANGED lists
\* updateProfile
SubmitProfile == \E email \in UserEmails : Present(Holder) /\ Asks(Holder, "profile", Holder, email, None) /\ UNCHANGED lists

DeleteRole ==
    \E r \in roles \ {SuperAdmin} :
        /\ Authorized /\ used < MaxCalls /\ used' = used + 1
        /\ roles' = roles \ {r}
        /\ people' = [ u \in Users |-> IF Present(u) THEN [ people[u] EXCEPT !.roles = @ \ {r} ] ELSE None ]
        /\ disturbed' = disturbed \cup { u \in Users : Present(u) /\ r \in people[u].roles }
        /\ lists' = [ p \in Pages |-> [ lists[p] EXCEPT !.stale = TRUE ] ]
        /\ UNCHANGED << calls, failures, trail >>

-----------------------------------------------------------------------------
Admits(c) ==
    /\ calls[c].op = "create" /\ calls[c].phase = "sent"
    /\ IF Authorized THEN Goes(c, "checked") ELSE Refused(c)
    /\ Reads

\* deleteUser: counts, then deletes whatever the count is by then.
CountUsers(c) ==
    /\ calls[c].op = "delete" /\ calls[c].phase = "sent"
    /\ IF Authorized /\ Cardinality({ u \in Users : Present(u) }) # 1 THEN Goes(c, "counted") ELSE Refused(c)
    /\ Reads
DeleteUser(c) ==
    /\ calls[c].op = "delete" /\ calls[c].phase = "counted"
    /\ Writes(c, [ people EXCEPT ![calls[c].id] = None ])
    /\ trail' = [ trail EXCEPT ![calls[c].id] = None ]
    /\ Goes(c, "done")
    /\ UNCHANGED << roles, used, failures >>

\* Addresses compared as they are spelled.
Taken_Fault(id, email) == \E u \in Users \ {id} : Present(u) /\ people[u].email = email
\* assessEmailChange: the address to write, None to leave it, or a refusal.
Taken(id, email) == \E u \in Users \ {id} : Present(u) /\ Lower[people[u].email] = email
Unchanged(id, email) == email = None \/ Lower[email] = Lower[people[id].email]
AssessEmailChange(c) ==
    LET id == calls[c].id  email == calls[c].email IN
    /\ calls[c].op \in {"update", "profile"} /\ calls[c].phase = "sent"
    /\ IF /\ calls[c].op = "update" => Authorized
          /\ Present(id)
          /\ Unchanged(id, email) \/ (people[id].provider = "local" /\ ~Taken(id, Lower[email]))
       THEN calls' = [ calls EXCEPT ![c].phase = "assessed", ![c].original = people[id],
                                    ![c].email = IF Unchanged(id, email) THEN None ELSE Lower[email] ]
       ELSE Refused(c)
    /\ Reads

\* updateUser: the fields, then the role taken away and given, then the log.
UpdateFields(c) ==
    LET id == calls[c].id  email == calls[c].email IN
    /\ calls[c].phase = "assessed"
    /\ IF email = None \/ ~Present(id)
       THEN Goes(c, "updated") /\ UNCHANGED << people, disturbed, lists >>
       ELSE IF Unique(email, id)
       THEN Goes(c, "updated") /\ Writes(c, [ people EXCEPT ![id].email = email ])
       ELSE Breaks(c)
    /\ UNCHANGED << roles, used, failures, trail >>
KeepsRole(c) == calls[c].role = None \/ calls[c].role \in calls[c].original.roles
StripRole(c) ==
    LET id == calls[c].id IN
    /\ calls[c].phase = "updated"
    /\ IF KeepsRole(c) THEN Goes(c, "given") /\ UNCHANGED << people, disturbed, lists >>
       ELSE /\ Goes(c, "stripped")
            /\ Writes(c, IF Present(id) THEN [ people EXCEPT ![id].roles = {} ] ELSE people)
    /\ UNCHANGED << roles, used, failures, trail >>
GiveRole(c) ==
    LET id == calls[c].id  role == calls[c].role IN
    /\ calls[c].phase = "stripped"
    /\ IF Present(id) /\ role \in roles /\ role \notin people[id].roles
       THEN Goes(c, "given") /\ Writes(c, [ people EXCEPT ![id].roles = @ \cup {role} ])
       ELSE Breaks(c)
    /\ UNCHANGED << roles, used, failures, trail >>
LogChanges(c) ==
    LET id == calls[c].id  email == calls[c].email IN
    /\ calls[c].phase = "given"
    /\ trail' = IF calls[c].op \in {"update", "profile"} /\ email # None /\ trail[id] = calls[c].original.email
                THEN [ trail EXCEPT ![id] = email ] ELSE trail
    /\ Goes(c, "done")
    /\ UNCHANGED << people, roles, lists, used, failures, disturbed >>

\* The server dies between two statements, or loses the database: behind the last
\* of them too, with the audit entry of a deletion or the row read for the answer.
Fail(c) ==
    /\ failures < MaxFailures /\ failures' = failures + 1
    /\ Midway(c) /\ Breaks(c)
    /\ UNCHANGED << roles, used, trail >>

-----------------------------------------------------------------------------
\* The page patches its list: a deletion by the dialog's row of now.
Patched(p) ==
    LET id == calls[p].id IN
    IF calls[p].phase = "refused" THEN [ lists[p] EXCEPT !.dialog = None ]
    ELSE IF calls[p].op = "delete"
    THEN [ rows |-> [ lists[p].rows EXCEPT ![lists[p].dialog] = None ], dialog |-> None,
           stale |-> lists[p].stale \/ lists[p].dialog # id ]
    ELSE [ rows |-> [ lists[p].rows EXCEPT ![id] = Shown(people[id]) ], dialog |-> lists[p].dialog,
           stale |-> lists[p].stale \/ ~Present(id) ]
Answer(c) ==
    /\ calls[c].phase \in {"refused", "done"}
    /\ calls' = [ calls EXCEPT ![c] = Idle ]
    /\ lists' = IF c \in Pages THEN [ lists EXCEPT ![c] = Patched(c) ] ELSE lists
    /\ UNCHANGED << people, roles, used, failures, trail, disturbed >>

Next ==
    \/ \E p \in Pages : Setup(p) \/ OpenDelete(p) \/ ConfirmDelete(p) \/ SubmitNew(p) \/ SubmitEdit(p)
    \/ \E c \in Callers :
        \/ CountsNone(c) \/ InsertUser(c) \/ Admits(c) \/ CountUsers(c) \/ DeleteUser(c)
        \/ AssessEmailChange(c) \/ UpdateFields(c) \/ StripRole(c) \/ GiveRole(c) \/ LogChanges(c)
        \/ Fail(c) \/ Answer(c)
    \/ SubmitProfile \/ DeleteRole

Spec == Init /\ [][Next]_vars

-----------------------------------------------------------------------------
Resting(id) == \A c \in Callers : calls[c].id # id

\* Once set up, the instance never runs out of accounts, unless requests
\* crossed (user.controller.ts:83-101, UserService.ts:348-365).
SomeoneRemains == SuperAdmin \in roles => disturbed # {} \/ \E u \in Users : Present(u)

\* Whoever no request is about has one role, unless a role was deleted, or a
\* request failed or was crossed (UserService.ts:230-235).
OneRoleEach ==
    \A u \in Users \ disturbed : Present(u) /\ Resting(u) => Cardinality(people[u].roles) = 1

\* The log of an account's address leads to the address it has
\* (UserService.ts:253-267).
TrailLeadsThere == \A u \in Users \ disturbed : Present(u) /\ Resting(u) => trail[u] = people[u].email

\* An address taken by a change stands for one account
\* (UserService.ts:199-207).
TakenOnce ==
    \A u \in Users \ disturbed, c \in Callers :
        calls[c].id = u /\ calls[c].phase = "updated" /\ calls[c].email # None
            => \A v \in Users \ {u} : Present(v) => Lower[people[v].email] # calls[c].email

\* The page that patches its own list shows what the table holds.
ListMirrors ==
    \A p \in Pages :
        ~lists[p].stale /\ calls[p] = Idle =>
            lists[p].rows = [ u \in Users |-> Shown(people[u]) ]
=============================================================================
